---- MODULE Spec2Model ----
(***************************************************************************)
(* Capture-and-buffering engine of birdnet-go: the RTSP stream registry    *)
(* (ReconfigureRTSPStreams), the level computation (calculateAudioLevel),  *)
(* the level-event path from the capture service to the SSE handler, the   *)
(* level monitor loop of AudioLevelSSE, the ring buffer pair of a source,  *)
(* the decoder supervision loop, the ranking of BirdNET.Predict, the life  *)
(* of the AudioLevelSSE requests and cleanRTSPUrl; and, beside the engine, *)
(* BirdNET.ReloadModel running next to Predict, the control signal monitor *)
(* of the processor and the authorization codes and access tokens of the   *)
(* OAuth2 server.                                                          *)
(***************************************************************************)
EXTENDS Integers, Sequences, FiniteSets, TLC

\* ------------------------------------------------------------------------
\* Bounds of the model
\* ------------------------------------------------------------------------
NumURLs == 2
MaxListLen == 2
MaxCalls == 3

\* RTSP URLs are modelled by their index in a fixed universe of URLs.
URLs == 1..NumURLs

\* Every settings.Realtime.RTSP.URLs value: a list, possibly with repeats.
URLLists == UNION {[1..n -> URLs] : n \in 0..MaxListLen}

Range(s) == {s[i] : i \in 1..Len(s)}

VARIABLES
    \* ---- package myaudio: stream registry
    activeStreams,      \* keys of the activeStreams sync.Map
    analysisBuffers,    \* keys of the analysisBuffers map
    captureBuffers,     \* keys of the captureBuffers map
    ffmpegMonitor,      \* TRUE iff the global ffmpegMonitor is non-nil
    ffmpegProcesses,    \* keys of the ffmpegProcesses sync.Map (decoder running)
    producers,          \* per URL: live CaptureAudioRTSP goroutines
    \* ---- the ReconfigureRTSPStreams call in progress
    urls,               \* settings.Realtime.RTSP.URLs of the latest call
    rcPc,               \* position of the call: idle, remove, rmInactive, rmFree, add
    rcTodo,             \* entries of the currentStreams snapshot that are not in
                        \* the list and that the removal loop has not visited yet
    rcUrl,              \* url of the removal loop iteration in progress (0: none)
    rcIdx,              \* index of the addition loop
    calls,              \* completed calls
    \* ---- observation of the latest call (history, not program state)
    callLog,            \* what the latest call did: urls it called Allocate* for,
                        \* list indices whose allocation failed, list indices
                        \* it started a producer for, monitor started, and
                        \* whether every listed url was active when it began
    repeat,             \* the latest call got the same list as the one before it
    lastWriteErr,       \* TRUE iff the latest producer Write returned NotFound
    \* ---- calculateAudioLevel
    samples,            \* the chunk handed to calculateAudioLevel: a byte sequence
    levelData,          \* the AudioLevelData it returned, NoResult before the call
    \* ---- level events: capture service -> forwarder -> audioLevelChan -> SSE
    serviceChan,        \* service.GetAudioLevelChannel(): buffered events
    fwd,                \* levelData held by the forwarding goroutine, or NoEvent
    audioLevelChan,     \* the caller's audioLevelChan (h.AudioLevelChan)
    activeSSEConnections, \* client IPs with a registered AudioLevelSSE connection
    observed,           \* per client IP: the event its loop received latest
    \* ---- one AudioLevelSSE connection: the level monitor loop
    now,                \* time.Now(), in seconds since the connection began
    sseOpen,            \* TRUE while the handler's loop runs
    configured,         \* sources named by the settings when the loop began
    levels,             \* the levels map: source -> AudioLevelData
    lastUpdateTime,     \* source -> time of its latest level event
    lastNonZeroTime,    \* source -> time of its latest event with level > 0
    sent,               \* TRUE iff the latest step of the loop wrote the
                        \* levels map to the client (sendLevelsUpdate)
    \* ---- the capture buffer of one source
    captureRing,        \* the CaptureBuffer, NoBuffer while none is allocated
    captureStream,      \* every byte written to it since its allocation
    captureResult,      \* what the latest capture buffer call returned
    \* ---- the analysis buffer of one source
    analysisRing,       \* the AnalysisBuffer, NoBuffer while none is allocated
    analysisStream,     \* every byte appended to it since its allocation
    analysisWindows,    \* the windows ExtractWindow returned, in order
    analysisResult,     \* what the latest analysis buffer call returned
    \* ---- the decoder supervision loop of one source
    supState,           \* Stopped, Running or Backoff
    supStopped,         \* TRUE once Stop has been called
    procAlive,          \* TRUE while the decoder subprocess runs
    restartAt,          \* time of the pending restart, NoRestart when none
    spawnTimes,         \* the times at which the subprocess was spawned
    supNow,             \* the supervisor's clock
    degraded,           \* TRUE once StreamDegraded has been surfaced
    \* ---- BirdNET.Predict
    predInput,          \* labels, model outputs and sensitivity of the call
    predResult,         \* what Predict returned, NoResult before the call
    \* ---- AudioLevelSSE requests: the life of each handler invocation
    connPc,             \* per request: idle, init, loop, returning, done, rejected
    connIp,             \* per request: c.RealIP() (0 before the request arrives)
    connDeadline,       \* per request: when its timeout timer fires (0: no timer)
    connStatus,         \* per request: the HTTP status written (0: none yet)
    connExit,           \* per request: the exit path its loop took, or "none"
    connEvents,         \* per request: level events its loop handled, modulo 2
    connNow,            \* the clock, in seconds
    \* ---- cleanRTSPUrl
    cleanInput,         \* the url handed to cleanRTSPUrl and its parts
    cleanOutput,        \* the string it returned, NoResult before the call
    \* ---- BirdNET.ReloadModel and the Predict calls that run beside it
    bn,                 \* the BirdNET instance, every interpreter created so
                        \* far, the mutex and the position of each caller
    \* ---- Processor.controlSignalMonitor
    ctl,                \* the control channel and what its goroutine did
    \* ---- OAuth2Server: authorization codes and access tokens
    auth                \* the two maps, the clock and the latest call

regVars == <<activeStreams, analysisBuffers, captureBuffers, ffmpegMonitor,
             ffmpegProcesses, producers>>
rcVars == <<urls, rcPc, rcTodo, rcUrl, rcIdx, calls>>
obsVars == <<callLog, repeat, lastWriteErr>>

levelVars == <<samples, levelData>>
chanVars == <<serviceChan, fwd, audioLevelChan, activeSSEConnections, observed>>
monVars == <<now, sseOpen, configured, levels, lastUpdateTime,
             lastNonZeroTime, sent>>
capVars == <<captureRing, captureStream, captureResult>>
anaVars == <<analysisRing, analysisStream, analysisWindows, analysisResult>>
supVars == <<supState, supStopped, procAlive, restartAt, spawnTimes, supNow,
             degraded>>
predVars == <<predInput, predResult>>
connVars == <<connPc, connIp, connDeadline, connStatus, connExit, connEvents,
              connNow>>
cleanVars == <<cleanInput, cleanOutput>>
reloadVars == <<bn>>
ctlVars == <<ctl>>
authVars == <<auth>>

\* What the actions of one component leave alone: the other components.
outsideRegistry == <<levelVars, chanVars, monVars, capVars, anaVars, supVars,
                     predVars, connVars, cleanVars,
                  reloadVars, ctlVars, authVars>>
outsideLevel == <<regVars, rcVars, obsVars, chanVars, monVars, capVars,
                  anaVars, supVars, predVars, connVars, cleanVars,
                  reloadVars, ctlVars, authVars>>
outsideChan == <<regVars, rcVars, obsVars, levelVars, monVars, capVars,
                 anaVars, supVars, predVars, connVars, cleanVars,
                  reloadVars, ctlVars, authVars>>
outsideMonitor == <<regVars, rcVars, obsVars, levelVars, chanVars, capVars,
                    anaVars, supVars, predVars, connVars, cleanVars,
                  reloadVars, ctlVars, authVars>>
outsideCapture == <<regVars, rcVars, obsVars, levelVars, chanVars, monVars,
                    anaVars, supVars, predVars, connVars, cleanVars,
                  reloadVars, ctlVars, authVars>>
outsideAnalysis == <<regVars, rcVars, obsVars, levelVars, chanVars, monVars,
                     capVars, supVars, predVars, connVars, cleanVars,
                  reloadVars, ctlVars, authVars>>
outsideSupervisor == <<regVars, rcVars, obsVars, levelVars, chanVars,
                       monVars, capVars, anaVars, predVars, connVars,
                       cleanVars,
                  reloadVars, ctlVars, authVars>>
outsidePredict == <<regVars, rcVars, obsVars, levelVars, chanVars, monVars,
                    capVars, anaVars, supVars, connVars, cleanVars,
                  reloadVars, ctlVars, authVars>>
\* The requests share the activeSSEConnections map with the level-event path.
outsideConn == <<regVars, rcVars, obsVars, levelVars, serviceChan, fwd,
                 audioLevelChan, observed, monVars, capVars, anaVars,
                 supVars, predVars, cleanVars,
                  reloadVars, ctlVars, authVars>>
outsideReload == <<regVars, rcVars, obsVars, levelVars, chanVars, monVars,
                   capVars, anaVars, supVars, predVars, connVars, cleanVars,
                   ctlVars, authVars>>
outsideControl == <<regVars, rcVars, obsVars, levelVars, chanVars, monVars,
                    capVars, anaVars, supVars, predVars, connVars, cleanVars,
                    reloadVars, authVars>>
outsideAuth == <<regVars, rcVars, obsVars, levelVars, chanVars, monVars,
                 capVars, anaVars, supVars, predVars, connVars, cleanVars,
                 reloadVars, ctlVars>>
outsideClean == <<regVars, rcVars, obsVars, levelVars, chanVars, monVars,
                  capVars, anaVars, supVars, predVars, connVars,
                  reloadVars, ctlVars, authVars>>

vars == <<activeStreams, analysisBuffers, captureBuffers, ffmpegMonitor,
          ffmpegProcesses, producers, urls, rcPc, rcTodo, rcUrl, rcIdx,
          calls, callLog, repeat, lastWriteErr, samples, levelData,
          serviceChan, fwd, audioLevelChan, activeSSEConnections,
          now, sseOpen, configured, levels, lastUpdateTime, lastNonZeroTime,
          sent, captureRing, captureStream, captureResult,
          analysisRing, analysisStream, analysisWindows, analysisResult,
          supState, supStopped, procAlive, restartAt, spawnTimes, supNow,
          degraded, predInput, predResult, connPc, connIp, connDeadline,
          connStatus, connExit, connEvents, connNow, cleanInput, cleanOutput,
          observed, bn, ctl, auth>>

NoResult == [Pending |-> TRUE]
NoEvent == [Source |-> -1, Level |-> -1]

EmptyLog == [allocA |-> {}, allocC |-> {}, fail |-> {}, start |-> {},
             monitor |-> FALSE, allActive |-> TRUE]

\* State after package initialisation: empty maps, nil monitor, no call yet.
InitRegistry ==
    /\ activeStreams = {}
    /\ analysisBuffers = {}
    /\ captureBuffers = {}
    /\ ffmpegMonitor = FALSE
    /\ ffmpegProcesses = {}
    /\ producers = [u \in URLs |-> 0]
    /\ urls = <<>>
    /\ rcPc = "idle"
    /\ rcTodo = {}
    /\ rcUrl = 0
    /\ rcIdx = 0
    /\ calls = 0
    /\ callLog = EmptyLog
    /\ repeat = FALSE
    /\ lastWriteErr = FALSE

\* No chunk observed yet.
InitLevelIdle ==
    /\ samples = <<>>
    /\ levelData = NoResult

\* Empty channels, forwarder waiting, no SSE client.
InitChan ==
    /\ serviceChan = <<>>
    /\ fwd = NoEvent
    /\ audioLevelChan = <<>>
    /\ activeSSEConnections = {}
    /\ observed = <<>>

\* No AudioLevelSSE loop running.
InitMonitorIdle ==
    /\ now = 0
    /\ sseOpen = FALSE
    /\ configured = {}
    /\ levels = <<>>
    /\ lastUpdateTime = <<>>
    /\ lastNonZeroTime = <<>>
    /\ sent = FALSE

NoBuffer == [Absent |-> TRUE]
NoCall == [op |-> "none", err |-> "ok", bytes |-> <<>>]

\* No capture buffer allocated, no call made.
InitCapture ==
    /\ captureRing = NoBuffer
    /\ captureStream = <<>>
    /\ captureResult = NoCall

\* No analysis buffer allocated, no call made.
InitAnalysis ==
    /\ analysisRing = NoBuffer
    /\ analysisStream = <<>>
    /\ analysisWindows = <<>>
    /\ analysisResult = NoCall

NoRestart == [Pending |-> FALSE]

\* The supervision loop has not been started.
InitSupervisor ==
    /\ supState = "Stopped"
    /\ supStopped = FALSE
    /\ procAlive = FALSE
    /\ restartAt = NoRestart
    /\ spawnTimes = <<>>
    /\ supNow = 0
    /\ degraded = FALSE

NoInput == [None |-> TRUE]

\* Predict has not been called.
InitPredictIdle ==
    /\ predInput = NoInput
    /\ predResult = NoResult

\* No AudioLevelSSE request has arrived.
InitConn ==
    /\ connPc = <<>>
    /\ connIp = <<>>
    /\ connDeadline = <<>>
    /\ connStatus = <<>>
    /\ connExit = <<>>
    /\ connEvents = <<>>
    /\ connNow = 0

\* cleanRTSPUrl has not been called.
InitCleanIdle ==
    /\ cleanInput = NoInput
    /\ cleanOutput = NoResult

\* A model interpreter: whether AllocateTensors has succeeded on it, how
\* often Delete was called on it, the size of its output tensor and the
\* ReloadModel call that created it (0: NewBirdNET).
Interpreter(state, outs, born) ==
    [state |-> state, deletes |-> 0, outs |-> outs, born |-> born]

\* The instance NewBirdNET returned: both interpreters allocated, one label
\* per class of the model, nobody holding the mutex.
InitReload ==
    bn = [analysis |-> 1, range |-> 2, labels |-> <<1>>,
          interps |-> <<Interpreter("ready", 1, 0), Interpreter("ready", 0, 0)>>,
          mu |-> "free", rpc |-> "idle", ppc |-> "idle",
          oldAnalysis |-> 0, oldRange |-> 0,
          before |-> [analysis |-> 1, range |-> 2, labels |-> <<1>>],
          err |-> "none", invoked |-> "none", paired |-> "none", reloads |-> 0]

\* The control channel is empty and its goroutine has handled nothing.
InitControl ==
    ctl = [chan |-> <<>>, log |-> <<>>, handled |-> <<>>]

\* The server NewOAuth2Server returned: both maps empty.
InitAuth ==
    auth = [authCodes |-> <<>>, accessTokens |-> <<>>, now |-> 0,
            cleanupNow |-> -1, strings |-> <<>>,
            last |-> [op |-> "none", arg |-> 0, ok |-> FALSE, ret |-> 0]]

\* No BirdNET instance has been created.
InitReloadIdle == bn = NoInput

\* No OAuth2 server has been created.
InitAuthIdle == auth = NoInput

Init ==
    /\ InitRegistry
    /\ InitReloadIdle
    /\ InitControl
    /\ InitAuthIdle
    /\ InitLevelIdle
    /\ InitChan
    /\ InitMonitorIdle
    /\ InitCapture
    /\ InitAnalysis
    /\ InitSupervisor
    /\ InitPredictIdle
    /\ InitConn
    /\ InitCleanIdle

\* ------------------------------------------------------------------------
\* Buffer registry operations (package myaudio, buffer files)
\* ------------------------------------------------------------------------

\* RemoveAnalysisBuffer(url): deletes the entry; an absent entry is an error
\* the caller only logs.
RemoveAnalysisBuffer(bufs, url) == bufs \ {url}

\* RemoveCaptureBuffer(url): likewise for the capture buffer map.
RemoveCaptureBuffer(bufs, url) == bufs \ {url}

\* AllocateAnalysisBuffer(capacity, url): adds the entry when it succeeds.
AllocateAnalysisBuffer(bufs, url, ok) == IF ok THEN bufs \cup {url} ELSE bufs

\* AllocateCaptureBuffer(60, rate, bytes, url): adds the entry when it succeeds.
AllocateCaptureBuffer(bufs, url, ok) == IF ok THEN bufs \cup {url} ELSE bufs

\* Write on a source's buffers: NotFound once the buffers are gone.
WriteResult(url) ==
    IF url \in analysisBuffers /\ url \in captureBuffers THEN "ok" ELSE "NotFound"

\* ------------------------------------------------------------------------
\* ReconfigureRTSPStreams
\* ------------------------------------------------------------------------

\* The position after one removal iteration, or after the snapshot: the
\* removal loop while it has entries left, then the addition loop.
AfterRemoval(todo) == IF todo = {} THEN "add" ELSE "remove"

\* len(URLs) == 0: stop the monitor and return; nothing else is touched.
ReconfigureEmpty ==
    /\ rcPc = "idle"
    /\ calls < MaxCalls
    /\ repeat' = (calls > 0 /\ urls = <<>>)
    /\ urls' = <<>>
    /\ ffmpegMonitor' = FALSE
    /\ calls' = calls + 1
    /\ callLog' = EmptyLog
    /\ UNCHANGED <<activeStreams, analysisBuffers, captureBuffers,
                   ffmpegProcesses, producers, rcPc, rcTodo,
                   rcUrl, rcIdx, lastWriteErr>>
    /\ UNCHANGED outsideRegistry

\* A non-empty list: start the monitor when it is nil, snapshot the active
\* streams; the removal loop acts on the snapshot entries not in the list.
ReconfigureBegin(list) ==
    /\ rcPc = "idle"
    /\ calls < MaxCalls
    /\ Len(list) > 0
    /\ repeat' = (calls > 0 /\ urls = list)
    /\ urls' = list
    /\ callLog' = [EmptyLog EXCEPT !.monitor = ~ffmpegMonitor,
                                 !.allActive = Range(list) \subseteq activeStreams]
    /\ ffmpegMonitor' = TRUE
    /\ rcTodo' = activeStreams \ Range(list)
    /\ rcUrl' = 0
    /\ rcIdx' = 1
    /\ rcPc' = AfterRemoval(activeStreams \ Range(list))
    /\ UNCHANGED <<activeStreams, analysisBuffers, captureBuffers,
                   ffmpegProcesses, producers, calls, lastWriteErr>>
    /\ UNCHANGED outsideRegistry

\* Removal, first step: the stream has an FFmpeg process: Cleanup(url), then
\* a 100 ms sleep.
RemoveStopDecoder(url) ==
    /\ rcPc = "remove"
    /\ url \in rcTodo
    /\ url \in ffmpegProcesses
    /\ ffmpegProcesses' = ffmpegProcesses \ {url}
    /\ rcUrl' = url
    /\ rcPc' = "rmInactive"
    /\ UNCHANGED <<activeStreams, analysisBuffers, captureBuffers,
                   ffmpegMonitor, producers, urls, rcTodo,
                   rcIdx, calls>>
    /\ UNCHANGED obsVars
    /\ UNCHANGED outsideRegistry

\* The removal with its last two steps swapped: the buffers go first.
RemoveMarkInactive_FreesFirst(url) ==
    /\ \/ rcPc = "remove" /\ url \in rcTodo /\ url \notin ffmpegProcesses
       \/ rcPc = "rmInactive" /\ url = rcUrl
    /\ analysisBuffers' = RemoveAnalysisBuffer(analysisBuffers, url)
    /\ captureBuffers' = RemoveCaptureBuffer(captureBuffers, url)
    /\ rcUrl' = url
    /\ rcPc' = "rmFree"
    /\ UNCHANGED <<activeStreams, ffmpegMonitor, ffmpegProcesses, producers,
                   urls, rcTodo, rcIdx, calls>>
    /\ UNCHANGED obsVars
    /\ UNCHANGED outsideRegistry

\* Removal, second step: activeStreams.Delete(url), then a 100 ms sleep.  It
\* is the first step of the iteration when the stream has no process.
RemoveMarkInactive(url) ==
    /\ \/ rcPc = "remove" /\ url \in rcTodo /\ url \notin ffmpegProcesses
       \/ rcPc = "rmInactive" /\ url = rcUrl
    /\ activeStreams' = activeStreams \ {url}
    /\ rcUrl' = url
    /\ rcPc' = "rmFree"
    /\ UNCHANGED <<analysisBuffers, captureBuffers, ffmpegMonitor,
                   ffmpegProcesses, producers, urls, rcTodo,
                   rcIdx, calls>>
    /\ UNCHANGED obsVars
    /\ UNCHANGED outsideRegistry

\* Removal, last step: RemoveAnalysisBuffer and RemoveCaptureBuffer.
RemoveBuffers ==
    /\ rcPc = "rmFree"
    /\ analysisBuffers' = RemoveAnalysisBuffer(analysisBuffers, rcUrl)
    /\ captureBuffers' = RemoveCaptureBuffer(captureBuffers, rcUrl)
    /\ rcTodo' = rcTodo \ {rcUrl}
    /\ rcUrl' = 0
    /\ rcPc' = AfterRemoval(rcTodo \ {rcUrl})
    /\ UNCHANGED <<activeStreams, ffmpegMonitor, ffmpegProcesses, producers,
                   urls, rcIdx, calls>>
    /\ UNCHANGED obsVars
    /\ UNCHANGED outsideRegistry

\* The end of one addition iteration: the next entry, or the return.
AddAdvance ==
    /\ rcIdx' = rcIdx + 1
    /\ rcPc' = IF rcIdx = Len(urls) THEN "idle" ELSE "add"
    /\ calls' = IF rcIdx = Len(urls) THEN calls + 1 ELSE calls
    /\ UNCHANGED <<urls, rcTodo, rcUrl, repeat, lastWriteErr,
                   ffmpegMonitor, ffmpegProcesses>>
    /\ UNCHANGED outsideRegistry

\* The addition loop without its activeStreams.Load check: an active stream
\* is stored and started again.
AddSkipActive_Missing ==
    /\ rcPc = "add"
    /\ urls[rcIdx] \in activeStreams
    /\ producers' = [producers EXCEPT ![urls[rcIdx]] = @ + 1]
    /\ callLog' = [callLog EXCEPT !.start = @ \cup {rcIdx}]
    /\ AddAdvance
    /\ UNCHANGED <<activeStreams, analysisBuffers, captureBuffers>>

\* Addition: the stream is already active: continue.
AddSkipActive ==
    /\ rcPc = "add"
    /\ urls[rcIdx] \in activeStreams
    /\ AddAdvance
    /\ UNCHANGED <<activeStreams, analysisBuffers, captureBuffers, producers,
                   callLog>>

\* Addition: the analysis buffer does not exist and its allocation fails:
\* continue.
AddFailAnalysis ==
    LET url == urls[rcIdx] IN
    /\ rcPc = "add"
    /\ url \notin activeStreams
    /\ url \notin analysisBuffers
    /\ analysisBuffers' = AllocateAnalysisBuffer(analysisBuffers, url, FALSE)
    /\ callLog' = [callLog EXCEPT !.allocA = @ \cup {url},
                                 !.fail = @ \cup {rcIdx}]
    /\ AddAdvance
    /\ UNCHANGED <<activeStreams, captureBuffers, producers>>

\* The failing iteration with activeStreams.Store placed before the
\* allocations: the stream stays marked active.
AddFailCapture_StoreFirst ==
    /\ rcPc = "add"
    /\ urls[rcIdx] \notin activeStreams
    /\ urls[rcIdx] \notin captureBuffers
    /\ activeStreams' = activeStreams \cup {urls[rcIdx]}
    /\ analysisBuffers' = analysisBuffers \cup {urls[rcIdx]}
    /\ callLog' = [callLog EXCEPT !.allocC = @ \cup {urls[rcIdx]},
                                 !.fail = @ \cup {rcIdx}]
    /\ AddAdvance
    /\ UNCHANGED <<captureBuffers, producers>>

\* Addition: the analysis buffer exists or is allocated, the capture buffer
\* does not exist and its allocation fails.  When the analysis buffer was
\* created by this iteration the code calls RemoveCaptureBuffer(url).
AddFailCapture ==
    LET url == urls[rcIdx]
        abExists == url \in analysisBuffers
        ab == IF abExists THEN analysisBuffers
                          ELSE AllocateAnalysisBuffer(analysisBuffers, url, TRUE)
        cb == AllocateCaptureBuffer(captureBuffers, url, FALSE)
    IN
    /\ rcPc = "add"
    /\ url \notin activeStreams
    /\ url \notin captureBuffers
    /\ analysisBuffers' = ab
    /\ captureBuffers' = IF abExists THEN cb ELSE RemoveCaptureBuffer(cb, url)
    /\ callLog' = [callLog EXCEPT
                     !.allocA = IF abExists THEN @ ELSE @ \cup {url},
                     !.allocC = @ \cup {url},
                     !.fail = @ \cup {rcIdx}]
    /\ AddAdvance
    /\ UNCHANGED <<activeStreams, producers>>

\* The addition with the capture buffer left out: the stream is stored and
\* started on its analysis buffer alone.
AddStart_NoCaptureBuffer ==
    /\ rcPc = "add"
    /\ urls[rcIdx] \notin activeStreams
    /\ analysisBuffers' = analysisBuffers \cup {urls[rcIdx]}
    /\ captureBuffers' = captureBuffers
    /\ activeStreams' = activeStreams \cup {urls[rcIdx]}
    /\ producers' = [producers EXCEPT ![urls[rcIdx]] = @ + 1]
    /\ callLog' = [callLog EXCEPT !.start = @ \cup {rcIdx}]
    /\ AddAdvance

\* Addition: both buffers exist or are allocated: activeStreams.Store(url)
\* and go CaptureAudioRTSP(url, ...).
AddStart ==
    LET url == urls[rcIdx]
        abExists == url \in analysisBuffers
        cbExists == url \in captureBuffers
    IN
    /\ rcPc = "add"
    /\ url \notin activeStreams
    /\ analysisBuffers' = IF abExists THEN analysisBuffers
                          ELSE AllocateAnalysisBuffer(analysisBuffers, url, TRUE)
    /\ captureBuffers' = IF cbExists THEN captureBuffers
                         ELSE AllocateCaptureBuffer(captureBuffers, url, TRUE)
    /\ activeStreams' = activeStreams \cup {url}
    /\ producers' = [producers EXCEPT ![url] = @ + 1]
    /\ callLog' = [callLog EXCEPT
                     !.allocA = IF abExists THEN @ ELSE @ \cup {url},
                     !.allocC = IF cbExists THEN @ ELSE @ \cup {url},
                     !.start = @ \cup {rcIdx}]
    /\ AddAdvance

\* ------------------------------------------------------------------------
\* Capture producer of one stream (CaptureAudioRTSP)
\* ------------------------------------------------------------------------

\* The producer writes a chunk to the stream's buffers.
ProducerWrite(url) ==
    /\ producers[url] > 0
    /\ lastWriteErr' = (WriteResult(url) = "NotFound")
    /\ UNCHANGED regVars
    /\ UNCHANGED rcVars
    /\ UNCHANGED <<callLog, repeat>>
    /\ UNCHANGED outsideRegistry

\* The producer (re)starts its decoder while the stream has not been removed.
ProducerStartDecoder(url) ==
    /\ producers[url] > 0
    /\ url \in activeStreams
    /\ url \notin ffmpegProcesses
    /\ ffmpegProcesses' = ffmpegProcesses \cup {url}
    /\ UNCHANGED <<activeStreams, analysisBuffers, captureBuffers,
                   ffmpegMonitor, producers>>
    /\ UNCHANGED rcVars
    /\ UNCHANGED obsVars
    /\ UNCHANGED outsideRegistry

\* The producer finds its stream removed and exits.
ProducerExit(url) ==
    /\ producers[url] > 0
    /\ url \notin activeStreams
    /\ producers' = [producers EXCEPT ![url] = @ - 1]
    /\ UNCHANGED <<activeStreams, analysisBuffers, captureBuffers,
                   ffmpegMonitor, ffmpegProcesses>>
    /\ UNCHANGED rcVars
    /\ UNCHANGED obsVars
    /\ UNCHANGED outsideRegistry

\* ------------------------------------------------------------------------
\* calculateAudioLevel
\* ------------------------------------------------------------------------

\* Bounds of the chunks: MaxPad leading all-zero samples, then at most
\* MaxExplicit bytes drawn from ChunkBytes.
MaxPad == 18
MaxExplicit == 3

\* Byte values that build the samples 0, 1, 32767 (FF 7F), -32768 (00 80),
\* -1 (FF FF) and a spread of levels between them.
ChunkBytes == {0, 1, 127, 128, 255}

ZeroBytes(n) == [i \in 1..n |-> 0]

ChunkInputs ==
    {ZeroBytes(2 * p) \o e :
        p \in 0..MaxPad,
        e \in UNION {[1..n -> ChunkBytes] : n \in 0..MaxExplicit}}

\* (db + 60) * (100 / 50) >= k  iff  rms^2 >= 2^30 * 10^(k/20 - 6).  Entry
\* k + 1 of ThrInt is the integer part of that threshold and entry k + 1 of
\* ThrMicro the first six decimals of its fraction, for k = 0..120.  The
\* fraction is exact for k = 0, 20, .., 120; for every other k no mean of at
\* most 40 integer squares lies between the six-decimal value and the
\* threshold.
ThrInt ==
    <<
       1073, 1204, 1351, 1516, 1701, 1909, 2142, 2403,
       2697, 3026, 3395, 3809, 4274, 4796, 5381, 6038,
       6774, 7601, 8529, 9569, 10737, 12047, 13517, 15167,
       17017, 19094, 21423, 24038, 26971, 30262, 33954, 38097,
       42746, 47962, 53814, 60380, 67748, 76015, 85290, 95697,
       107374, 120475, 135176, 151670, 170176, 190941, 214239, 240380,
       269711, 302621, 339546, 380977, 427464, 479622, 538145, 603809,
       677485, 760150, 852903, 956973, 1073741, 1204758, 1351760, 1516700,
       1701766, 1909412, 2142396, 2403808, 2697117, 3026215, 3395469, 3809779,
       4274643, 4796228, 5381456, 6038094, 6774852, 7601509, 8529034, 9569734,
       10737418, 12047581, 13517608, 15167006, 17017661, 19094129, 21423965, 24038085,
       26971175, 30262156, 33954697, 38097797, 42746431, 47962285, 53814569, 60380940,
       67748528, 76015099, 85290344, 95697340, 107374182, 120475814, 135176086, 151670063,
       170176610, 190941297, 214239659, 240380851, 269711751, 302621562, 339546978, 380977975,
       427464319, 479622854, 538145694, 603809400, 677485289, 760150997, 852903447, 956973407,
       1073741824
    >>

ThrMicro ==
    <<
       741824, 758141, 760867, 700639, 766107, 412977, 396597, 808518,
       117518, 215629, 469782, 779757, 643194, 228549, 456944, 94002,
       852899, 509978, 34476, 734079, 418240, 581416, 608679, 6396,
       661073, 129773, 965974, 85187, 175186, 156293, 697828, 797573,
       431945, 285498, 569440, 940022, 528992, 99781, 344760, 340795,
       182400, 814168, 86793, 63963, 610731, 297731, 659743, 851875,
       751864, 562934, 978282, 975735, 319457, 854987, 694400, 400220,
       289928, 997817, 447607, 407953, 824000, 141683, 867939, 639631,
       107318, 977316, 597433, 518753, 518649, 629346, 782823, 757352,
       194575, 549870, 944004, 2204, 899283, 978177, 476075, 79534,
       240000, 416838, 679398, 396317, 73183, 773168, 974331, 187537,
       186499, 293463, 828236, 573528, 945759, 498704, 440046, 22046,
       992835, 781773, 760755, 795343, 400000, 168385, 793982, 963171,
       731837, 731683, 743314, 875372, 864994, 934636, 282364, 735281,
       457591, 987047, 400461, 220462, 928359, 817734, 607550, 953439,
       0
    >>

\* int16(binary.LittleEndian.Uint16(samples[i : i+2]))
Int16LE(lo, hi) ==
    LET w == lo + 256 * hi IN IF w >= 32768 THEN w - 65536 ELSE w

\* An odd trailing byte is dropped: samples[:len(samples)-1].
TruncateEven(s) ==
    IF Len(s) % 2 # 0 THEN SubSeq(s, 1, Len(s) - 1) ELSE s

\* The i-th 16-bit sample of an even-length chunk.
SampleAt(s, i) == Int16LE(s[2 * i - 1], s[2 * i])

\* sample == 32767 || sample == -32768
IsClippingSample_PositiveOnly(sample) == sample = 32767

IsClippingSample(sample) == sample = 32767 \/ sample = -32768

\* sum += sampleAbs * sampleAbs over the samples i..n.  The sum does not fit
\* 32 bits: it is kept as hi * 65536 + lo (lo is normalised by MeanSquare).
RECURSIVE SumSquares(_, _, _)
SumSquares(s, i, n) ==
    IF i > n THEN [hi |-> 0, lo |-> 0]
    ELSE LET sq == SampleAt(s, i) * SampleAt(s, i)
             rest == SumSquares(s, i + 1, n)
         IN [hi |-> rest.hi + (sq \div 65536), lo |-> rest.lo + (sq % 65536)]

\* sum / float64(sampleCount), as quotient q and remainder r of the division
\* by the sample count: the mean square is q + r / n.
MeanSquare(s, n) ==
    LET sum == SumSquares(s, 1, n)
        hi == sum.hi + (sum.lo \div 65536)
        lo == sum.lo % 65536
        rest == (hi % n) * 65536 + lo
    IN [q |-> (hi \div n) * 65536 + (rest \div n), r |-> rest % n]

\* rms^2 >= the threshold of scaled level k.
ReachesLevel(ms, n, k) ==
    \/ ms.q > ThrInt[k + 1]
    \/ ms.q = ThrInt[k + 1] /\ ms.r * 1000000 >= n * ThrMicro[k + 1]

\* scaledLevel := (20*log10(rms/32768) + 60) * (100.0/50.0), rounded down;
\* -1 stands for every negative value (log10(0) = -Inf included).
ScaledLevel(ms, n) == Cardinality({k \in 0..120 : ReachesLevel(ms, n, k)}) - 1

\* if isClipping { scaledLevel = math.Max(scaledLevel, 95) }
ClipFloor_Missing(scaled, isClipping) == scaled

ClipFloor(scaled, isClipping) ==
    IF isClipping /\ scaled < 95 THEN 95 ELSE scaled

\* Clamp the value between 0 and 100.
ClampLevel_NoLowerClamp(scaled) == IF scaled > 100 THEN 100 ELSE scaled

ClampLevel_NoUpperClamp(scaled) == IF scaled < 0 THEN 0 ELSE scaled

ClampLevel(scaled) ==
    IF scaled < 0 THEN 0 ELSE IF scaled > 100 THEN 100 ELSE scaled

\* calculateAudioLevel(samples, source, name); source and name are copied to
\* the result unchanged and are left out.
calculateAudioLevel(chunk) ==
    IF Len(chunk) = 0 THEN [Level |-> 0, Clipping |-> FALSE]
    ELSE LET s == TruncateEven(chunk)
             sampleCount == Len(s) \div 2
             isClipping ==
                 \E i \in 1..sampleCount : IsClippingSample(SampleAt(s, i))
         IN IF sampleCount = 0 THEN [Level |-> 0, Clipping |-> FALSE]
            ELSE [Level |-> ClampLevel(ClipFloor(
                                ScaledLevel(MeanSquare(s, sampleCount),
                                            sampleCount), isClipping)),
                  Clipping |-> isClipping]

\* A chunk arrives.
InitLevel ==
    /\ InitRegistry
    /\ InitReloadIdle
    /\ InitControl
    /\ InitAuthIdle
    /\ InitChan
    /\ InitMonitorIdle
    /\ InitCapture
    /\ InitAnalysis
    /\ InitSupervisor
    /\ InitPredictIdle
    /\ InitConn
    /\ InitCleanIdle
    /\ samples \in ChunkInputs
    /\ levelData = NoResult

\* The level monitor observes the chunk.
Observe ==
    /\ levelData = NoResult
    /\ levelData' = calculateAudioLevel(samples)
    /\ UNCHANGED samples
    /\ UNCHANGED outsideLevel

NextLevel == Observe

SpecLevel == InitLevel /\ [][NextLevel]_vars

\* ------------------------------------------------------------------------
\* Level events: CaptureAudio's forwarding goroutine and the SSE handler
\* ------------------------------------------------------------------------

\* Bounds: capacity of each level channel, number of client IPs.
ChanCap == 2
NumClients == 2

ClientIPs == 1..NumClients

\* Level events: source 0 is the audio device ("malgo"), source 1 a stream.
LevelEvents == [Source : 0..1, Level : {0, 60}]

\* The capture service emits a level event on its own channel and drops the
\* event when that channel is full.
ServiceEmit(e) ==
    /\ serviceChan' = IF Len(serviceChan) < ChanCap
                      THEN Append(serviceChan, e) ELSE serviceChan
    /\ UNCHANGED <<fwd, audioLevelChan, activeSSEConnections, observed>>
    /\ UNCHANGED outsideChan

\* for levelData := range service.GetAudioLevelChannel()
ForwarderReceive ==
    /\ fwd = NoEvent
    /\ serviceChan # <<>>
    /\ fwd' = Head(serviceChan)
    /\ serviceChan' = Tail(serviceChan)
    /\ UNCHANGED <<audioLevelChan, activeSSEConnections, observed>>
    /\ UNCHANGED outsideChan

\* audioLevelChan <- levelData: a plain send, which waits for room.
ForwarderSend ==
    /\ fwd # NoEvent
    /\ Len(audioLevelChan) < ChanCap
    /\ audioLevelChan' = Append(audioLevelChan, fwd)
    /\ fwd' = NoEvent
    /\ UNCHANGED <<serviceChan, activeSSEConnections, observed>>
    /\ UNCHANGED outsideChan

\* AudioLevelSSE: LoadOrStore(clientIP); a second connection of a registered
\* IP gets 429 and changes nothing.
SSEConnect(ip) ==
    /\ activeSSEConnections' = activeSSEConnections \cup {ip}
    /\ observed' = [c \in activeSSEConnections \cup {ip} |->
                        IF c \in activeSSEConnections THEN observed[c]
                        ELSE NoEvent]
    /\ UNCHANGED <<serviceChan, fwd, audioLevelChan>>
    /\ UNCHANGED outsideChan

\* AudioLevelSSE returns (timeout, client gone, write error): the deferred
\* activeSSEConnections.Delete(clientIP).
SSEDisconnect(ip) ==
    /\ ip \in activeSSEConnections
    /\ activeSSEConnections' = activeSSEConnections \ {ip}
    /\ observed' = [c \in activeSSEConnections \ {ip} |-> observed[c]]
    /\ UNCHANGED <<serviceChan, fwd, audioLevelChan>>
    /\ UNCHANGED outsideChan

\* case audioData := <-h.AudioLevelChan, in the loop of a connected client:
\* every loop receives from the one h.AudioLevelChan, and a receive takes
\* the event off the channel.
SSEReceive(ip) ==
    /\ ip \in activeSSEConnections
    /\ audioLevelChan # <<>>
    /\ audioLevelChan' = Tail(audioLevelChan)
    /\ observed' = [observed EXCEPT ![ip] = Head(audioLevelChan)]
    /\ UNCHANGED <<serviceChan, fwd, activeSSEConnections>>
    /\ UNCHANGED outsideChan

NextChan ==
    \/ \E e \in LevelEvents : ServiceEmit(e)
    \/ ForwarderReceive
    \/ ForwarderSend
    \/ \E ip \in ClientIPs : SSEConnect(ip)
    \/ \E ip \in ClientIPs : SSEDisconnect(ip)
    \/ \E ip \in ClientIPs : SSEReceive(ip)

SpecChan == Init /\ [][NextChan]_vars

\* ------------------------------------------------------------------------
\* AudioLevelSSE: the level monitor loop of one connection
\* ------------------------------------------------------------------------

\* Bound: the clock of a connection runs from 0 to MaxTime seconds, and
\* the loop reads it at multiples of the steps of ClockSteps.
MaxTime == 20

ClockSteps == {5}

\* const inactivityThreshold = 15 * time.Second
inactivityThreshold == 15

\* Keys of the levels map: "malgo" is the audio device, "rtsp" an RTSP url.
Sources == {"malgo", "rtsp"}

\* Chunks behind the level events that reach h.AudioLevelChan: silence and
\* one sample of -32768.
EventChunks == {<<0, 0>>, <<0, 128>>}

\* What calculateAudioLevel returns for them.
EventLevels == {calculateAudioLevel(chunk) : chunk \in EventChunks}

\* m[k] = v on a Go map.
Put(m, k, v) == [x \in DOMAIN m \cup {k} |-> IF x = k THEN v ELSE m[x]]

\* The Name set by initializeLevelsData and updateAudioLevels: the configured
\* name (the device name, cleanRTSPUrl(url)) for an authenticated client,
\* else "audio-source-1" or "camera-<i>"; an RTSP source that the settings
\* do not list keeps the name the event came with.
DisplayName(source, isAuthenticated, listed, eventName) ==
    IF isAuthenticated THEN "configured"
    ELSE IF source = "malgo" \/ listed THEN "anonymous"
    ELSE eventName

\* initializeLevelsData: level 0 and both timestamps set to now for the
\* device, when one is configured, and for every configured RTSP url.
initializeLevelsData(isAuthenticated, conf, t) ==
    [levels |-> [s \in conf |->
                    [Level |-> 0, Clipping |-> FALSE, Source |-> s,
                     Name |-> DisplayName(s, isAuthenticated, TRUE, "")]],
     lastUpdate |-> [s \in conf |-> t],
     lastNonZero |-> [s \in conf |-> t]]

\* isSourceInactive(source, now, lastUpdateTime, lastNonZeroTime, threshold)
isSourceInactive_AtThreshold(source, t, lut, lnzt, threshold) ==
    IF source \notin DOMAIN lut \/ source \notin DOMAIN lnzt THEN FALSE
    ELSE \/ t - lut[source] >= threshold
         \/ t - lnzt[source] >= threshold

isSourceInactive(source, t, lut, lnzt, threshold) ==
    IF source \notin DOMAIN lut \/ source \notin DOMAIN lnzt THEN FALSE
    ELSE \/ t - lut[source] > threshold
         \/ t - lnzt[source] > threshold

\* updateAudioLevels(audioData, levels, lastUpdateTime, lastNonZeroTime,
\* isAuthenticated, inactivityThreshold): the three maps after the call.
updateAudioLevels(audioData, lv, lut, lnzt, isAuthenticated, listed, t) ==
    LET named == [audioData EXCEPT
                     !.Name = DisplayName(audioData.Source, isAuthenticated,
                                          listed, audioData.Name)]
        lut2 == Put(lut, named.Source, t)
        lnzt2 == IF named.Level > 0 THEN Put(lnzt, named.Source, t) ELSE lnzt
    IN [levels |->
            IF ~isSourceInactive(named.Source, t, lut2, lnzt2,
                                 inactivityThreshold)
            THEN Put(lv, named.Source, named)
            ELSE Put(lv, named.Source, [named EXCEPT !.Level = 0]),
        lastUpdate |-> lut2,
        lastNonZero |-> lnzt2]

\* checkSourceActivity(levels, lastUpdateTime, lastNonZeroTime, threshold):
\* the levels map after the call; updated is TRUE iff the map changed.
checkSourceActivity_DropsInactive(lv, lut, lnzt, t) ==
    LET keep == {s \in DOMAIN lv :
                    ~(isSourceInactive(s, t, lut, lnzt, inactivityThreshold)
                      /\ lv[s].Level # 0)}
    IN [s \in keep |-> lv[s]]

checkSourceActivity(lv, lut, lnzt, t) ==
    [s \in DOMAIN lv |->
        IF isSourceInactive(s, t, lut, lnzt, inactivityThreshold)
           /\ lv[s].Level # 0
        THEN [lv[s] EXCEPT !.Level = 0]
        ELSE lv[s]]

\* sendLevelsUpdate(c, levels): the levels map is written, or the write
\* fails and the handler returns.
sendLevelsUpdate(writeOk) ==
    /\ sent' = writeOk
    /\ sseOpen' = writeOk

\* A connection is accepted: the maps are initialised and the initial update
\* is sent.
InitMonitor ==
    /\ InitRegistry
    /\ InitReloadIdle
    /\ InitControl
    /\ InitAuthIdle
    /\ InitLevelIdle
    /\ InitChan
    /\ InitCapture
    /\ InitAnalysis
    /\ InitSupervisor
    /\ InitPredictIdle
    /\ InitConn
    /\ InitCleanIdle
    /\ now = 0
    /\ sseOpen = TRUE
    /\ configured \in SUBSET Sources
    /\ \E isAuthenticated \in BOOLEAN :
          LET data == initializeLevelsData(isAuthenticated, configured, now)
          IN /\ levels = data.levels
             /\ lastUpdateTime = data.lastUpdate
             /\ lastNonZeroTime = data.lastNonZero
             /\ sent = TRUE

\* case audioData := <-h.AudioLevelChan.  The event carries what
\* calculateAudioLevel returned for a chunk of the source.  elapsed is
\* time.Since(lastSentTime) >= 50 ms, which the clock of whole seconds
\* leaves open.
SSELevelEvent(source, level, isAuthenticated, elapsed, writeOk) ==
    /\ sseOpen
    /\ LET audioData == [Level |-> level.Level, Clipping |-> level.Clipping,
                         Source |-> source, Name |-> "raw"]
           upd == updateAudioLevels(audioData, levels, lastUpdateTime,
                                    lastNonZeroTime, isAuthenticated,
                                    source \in configured, now)
       IN /\ lastUpdateTime' = upd.lastUpdate
          /\ lastNonZeroTime' = upd.lastNonZero
          /\ levels' = upd.levels
          /\ IF elapsed THEN sendLevelsUpdate(writeOk)
             ELSE sent' = FALSE /\ UNCHANGED sseOpen
    /\ UNCHANGED <<now, configured>>
    /\ UNCHANGED outsideMonitor

\* case <-activityCheck.C
SSEActivityCheck(writeOk) ==
    /\ sseOpen
    /\ LET checked == checkSourceActivity(levels, lastUpdateTime,
                                          lastNonZeroTime, now)
       IN /\ levels' = checked
          /\ IF checked # levels THEN sendLevelsUpdate(writeOk)
             ELSE sent' = FALSE /\ UNCHANGED sseOpen
    /\ UNCHANGED <<now, configured, lastUpdateTime, lastNonZeroTime>>
    /\ UNCHANGED outsideMonitor

\* case <-heartbeat.C: a comment line is written; no map is touched.
SSEHeartbeat(writeOk) ==
    /\ sseOpen
    /\ sseOpen' = writeOk
    /\ sent' = FALSE
    /\ UNCHANGED <<now, configured, levels, lastUpdateTime, lastNonZeroTime>>
    /\ UNCHANGED outsideMonitor

\* case <-timeout.C, case <-c.Request().Context().Done(): the handler returns.
SSEClose ==
    /\ sseOpen
    /\ sseOpen' = FALSE
    /\ sent' = FALSE
    /\ UNCHANGED <<now, configured, levels, lastUpdateTime, lastNonZeroTime>>
    /\ UNCHANGED outsideMonitor

\* Time passes while the loop waits in its select.
AdvanceTime(d) ==
    /\ sseOpen
    /\ now + d <= MaxTime
    /\ now' = now + d
    /\ sent' = FALSE
    /\ UNCHANGED <<sseOpen, configured, levels, lastUpdateTime,
                   lastNonZeroTime>>
    /\ UNCHANGED outsideMonitor

NextMonitor ==
    \/ \E source \in Sources, level \in EventLevels,
          isAuthenticated \in BOOLEAN, elapsed \in BOOLEAN,
          writeOk \in BOOLEAN :
          SSELevelEvent(source, level, isAuthenticated, elapsed, writeOk)
    \/ \E writeOk \in BOOLEAN : SSEActivityCheck(writeOk)
    \/ \E writeOk \in BOOLEAN : SSEHeartbeat(writeOk)
    \/ SSEClose
    \/ \E d \in ClockSteps : AdvanceTime(d)

SpecMonitor == InitMonitor /\ [][NextMonitor]_vars

\* ------------------------------------------------------------------------
\* CaptureBuffer: the circular capture store of one source
\* ------------------------------------------------------------------------

\* Bounds: allocation parameters, bytes written per buffer, bytes per Write.
MaxDuration == 2
MaxSampleRate == 2
MaxWritten == 6
MaxWriteLen == 3

BytesPerSampleValues == {1, 2}
ChannelValues == {1, 2}
ByteValues == {0, 1}

WriteInputs == UNION {[1..n -> ByteValues] : n \in 1..MaxWriteLen}

\* AllocateCaptureBuffer(durationSeconds, sampleRate, bytesPerSample,
\* channels, sourceID): the fixed circular region, empty.
NewCaptureBuffer_NoChannels(durationSeconds, sampleRate, bytesPerSample, channels) ==
    LET capacity == durationSeconds * sampleRate * bytesPerSample
    IN [durationSeconds |-> durationSeconds, sampleRate |-> sampleRate,
        bytesPerSample |-> bytesPerSample, channels |-> channels,
        capacityBytes |-> capacity, data |-> [i \in 1..capacity |-> 0],
        writeIndex |-> 0, total |-> 0]

NewCaptureBuffer(durationSeconds, sampleRate, bytesPerSample, channels) ==
    LET capacity == durationSeconds * sampleRate * bytesPerSample * channels
    IN [durationSeconds |-> durationSeconds, sampleRate |-> sampleRate,
        bytesPerSample |-> bytesPerSample, channels |-> channels,
        capacityBytes |-> capacity, data |-> [i \in 1..capacity |-> 0],
        writeIndex |-> 0, total |-> 0]

\* Write of one byte at the write cursor; once the region is full the cursor
\* wraps onto the oldest byte.
WriteByte_KeepsOldest(ring, b) ==
    IF ring.total >= ring.capacityBytes
    THEN [ring EXCEPT !.total = @ + 1]
    ELSE [ring EXCEPT !.data[ring.writeIndex + 1] = b,
                      !.writeIndex = (ring.writeIndex + 1) % ring.capacityBytes,
                      !.total = @ + 1]

WriteByte(ring, b) ==
    [ring EXCEPT !.data[ring.writeIndex + 1] = b,
                 !.writeIndex = (ring.writeIndex + 1) % ring.capacityBytes,
                 !.total = @ + 1]

\* Write(sourceID, bytes): the bytes in order.
RECURSIVE WriteBytes(_, _)
WriteBytes(ring, bytes) ==
    IF bytes = <<>> THEN ring
    ELSE WriteBytes(WriteByte(ring, Head(bytes)), Tail(bytes))

\* Bytes per second of audio; byte offset of a time since the anchor, which
\* is the moment of allocation.
BytesPerSecond(ring) == ring.sampleRate * ring.bytesPerSample * ring.channels

ByteOffset(ring, t) == t * BytesPerSecond(ring)

\* The byte at offset i of the stream (0-based), as the region holds it.
ByteAt(ring, i) == ring.data[(i % ring.capacityBytes) + 1]

\* ReadRange(sourceID, startTime, endTime)
ReadRange_NoOverwriteCheck(ring, startTime, endTime) ==
    IF ring = NoBuffer THEN [op |-> "read", err |-> "NotFound", bytes |-> <<>>,
               startTime |-> startTime, endTime |-> endTime]
    ELSE LET first == ByteOffset(ring, startTime)
             last == ByteOffset(ring, endTime)
         IN [op |-> "read", err |-> "ok",
             bytes |-> [i \in 1..(last - first) |->
                            ByteAt(ring, first + i - 1)],
             startTime |-> startTime, endTime |-> endTime]

ReadRange(ring, startTime, endTime) ==
    IF ring = NoBuffer THEN [op |-> "read", err |-> "NotFound", bytes |-> <<>>,
               startTime |-> startTime, endTime |-> endTime]
    ELSE LET first == ByteOffset(ring, startTime)
             last == ByteOffset(ring, endTime)
         IN IF first < ring.total - ring.capacityBytes
            THEN [op |-> "read", err |-> "RangeUnavailable", bytes |-> <<>>,
                  startTime |-> startTime, endTime |-> endTime]
            ELSE [op |-> "read", err |-> "ok",
                  bytes |-> [i \in 1..(last - first) |->
                                 ByteAt(ring, first + i - 1)],
             startTime |-> startTime, endTime |-> endTime]

\* The bytes the region holds, oldest first.
Retrievable(ring) ==
    LET n == IF ring.total < ring.capacityBytes THEN ring.total
             ELSE ring.capacityBytes
    IN [i \in 1..n |-> ByteAt(ring, ring.total - n + i - 1)]

\* AllocateCaptureBuffer: DuplicateSource when the source has a buffer.
CaptureAllocate(durationSeconds, sampleRate, bytesPerSample, channels) ==
    /\ IF captureRing # NoBuffer
       THEN /\ captureResult' = [op |-> "allocate", err |-> "DuplicateSource",
                                 bytes |-> <<>>]
            /\ UNCHANGED <<captureRing, captureStream>>
       ELSE /\ captureRing' = NewCaptureBuffer(durationSeconds, sampleRate,
                                               bytesPerSample, channels)
            /\ captureStream' = <<>>
            /\ captureResult' = [op |-> "allocate", err |-> "ok",
                                 bytes |-> <<>>]
    /\ UNCHANGED outsideCapture

\* Write(sourceID, bytes): NotFound without a buffer.
CaptureWrite(bytes) ==
    /\ Len(captureStream) + Len(bytes) <= MaxWritten
    /\ IF captureRing = NoBuffer
       THEN /\ captureResult' = [op |-> "write", err |-> "NotFound",
                                 bytes |-> <<>>]
            /\ UNCHANGED <<captureRing, captureStream>>
       ELSE /\ captureRing' = WriteBytes(captureRing, bytes)
            /\ captureStream' = captureStream \o bytes
            /\ captureResult' = [op |-> "write", err |-> "ok", bytes |-> <<>>]
    /\ UNCHANGED outsideCapture

\* ReadRange(sourceID, startTime, endTime) for an interval that lies in the
\* stream written so far; the call returns its result and reads once.
CaptureReadRange(startTime, endTime) ==
    /\ startTime < endTime
    /\ captureRing # NoBuffer => ByteOffset(captureRing, endTime)
                                    <= captureRing.total
    /\ captureResult' = ReadRange(captureRing, startTime, endTime)
    /\ UNCHANGED <<captureRing, captureStream>>
    /\ UNCHANGED outsideCapture

\* RemoveCaptureBuffer(sourceID)
CaptureRemove ==
    /\ captureRing' = NoBuffer
    /\ captureStream' = <<>>
    /\ captureResult' = [op |-> "remove",
                         err |-> IF captureRing = NoBuffer THEN "NotFound"
                                 ELSE "ok",
                         bytes |-> <<>>]
    /\ UNCHANGED outsideCapture

NextCapture ==
    \/ \E d \in 1..MaxDuration, sr \in 1..MaxSampleRate,
          bps \in BytesPerSampleValues, ch \in ChannelValues :
          CaptureAllocate(d, sr, bps, ch)
    \/ \E bytes \in WriteInputs : CaptureWrite(bytes)
    \/ \E t1, t2 \in 0..MaxWritten : CaptureReadRange(t1, t2)
    \/ CaptureRemove

SpecCapture == Init /\ [][NextCapture]_vars

\* ------------------------------------------------------------------------
\* AnalysisBuffer: the classifier-window store of one source
\* ------------------------------------------------------------------------

\* Bounds: window size and the slack of the region beyond one window.
MaxWindow == 3
MaxSlack == 2

\* AllocateAnalysisBuffer(windowBytes, overlapBytes, sourceID): a circular
\* region of one window plus slack, empty.
NewAnalysisBuffer(windowBytes, overlapBytes, slack) ==
    [windowBytes |-> windowBytes, overlapBytes |-> overlapBytes,
     size |-> windowBytes + slack,
     data |-> [i \in 1..(windowBytes + slack) |-> 0],
     readCursor |-> 0, written |-> 0]

\* Bytes appended and not yet passed by the read cursor.
Unconsumed(ring) == ring.written - ring.readCursor

\* Write(sourceID, bytes): appends the bytes in order.
RECURSIVE AppendBytes(_, _)
AppendBytes(ring, bytes) ==
    IF bytes = <<>> THEN ring
    ELSE AppendBytes([ring EXCEPT !.data[(ring.written % ring.size) + 1]
                                      = Head(bytes),
                                  !.written = @ + 1],
                     Tail(bytes))

\* HasEnoughData(sourceID)
HasEnoughData(ring) == Unconsumed(ring) >= ring.windowBytes

\* ExtractWindow(sourceID): one window from the read cursor on; the cursor
\* advances by windowBytes - overlapBytes.
ExtractWindow_ConsumesWindow(ring) ==
    [ring |-> [ring EXCEPT !.readCursor = @ + ring.windowBytes],
     bytes |-> [i \in 1..ring.windowBytes |->
                   ring.data[((ring.readCursor + i - 1) % ring.size) + 1]]]

ExtractWindow(ring) ==
    [ring |-> [ring EXCEPT
                  !.readCursor = @ + ring.windowBytes - ring.overlapBytes],
     bytes |-> [i \in 1..ring.windowBytes |->
                   ring.data[((ring.readCursor + i - 1) % ring.size) + 1]]]

AnalysisAllocate(windowBytes, overlapBytes, slack) ==
    /\ IF analysisRing # NoBuffer
       THEN /\ analysisResult' = [op |-> "allocate",
                                  err |-> "AllocationError", bytes |-> <<>>]
            /\ UNCHANGED <<analysisRing, analysisStream, analysisWindows>>
       ELSE /\ analysisRing' = NewAnalysisBuffer(windowBytes, overlapBytes,
                                                 slack)
            /\ analysisStream' = <<>>
            /\ analysisWindows' = <<>>
            /\ analysisResult' = [op |-> "allocate", err |-> "ok",
                                  bytes |-> <<>>]
    /\ UNCHANGED outsideAnalysis

\* Write(sourceID, bytes): NotFound without a buffer; bytes that do not fit
\* next to the unconsumed ones are refused.
AnalysisWrite(bytes) ==
    /\ Len(analysisStream) + Len(bytes) <= MaxWritten
    /\ IF analysisRing = NoBuffer
       THEN /\ analysisResult' = [op |-> "write", err |-> "NotFound",
                                  bytes |-> <<>>]
            /\ UNCHANGED <<analysisRing, analysisStream>>
       ELSE IF Unconsumed(analysisRing) + Len(bytes) > analysisRing.size
       THEN /\ analysisResult' = [op |-> "write", err |-> "Full",
                                  bytes |-> <<>>]
            /\ UNCHANGED <<analysisRing, analysisStream>>
       ELSE /\ analysisRing' = AppendBytes(analysisRing, bytes)
            /\ analysisStream' = analysisStream \o bytes
            /\ analysisResult' = [op |-> "write", err |-> "ok",
                                  bytes |-> <<>>]
    /\ UNCHANGED analysisWindows
    /\ UNCHANGED outsideAnalysis

\* ExtractWindow(sourceID), called once HasEnoughData(sourceID) holds.
AnalysisExtract ==
    /\ analysisRing # NoBuffer
    /\ HasEnoughData(analysisRing)
    /\ LET extracted == ExtractWindow(analysisRing)
       IN /\ analysisRing' = extracted.ring
          /\ analysisWindows' = Append(analysisWindows, extracted.bytes)
          /\ analysisResult' = [op |-> "extract", err |-> "ok",
                                bytes |-> extracted.bytes]
    /\ UNCHANGED analysisStream
    /\ UNCHANGED outsideAnalysis

\* RemoveAnalysisBuffer(sourceID)
AnalysisRemove ==
    /\ analysisRing' = NoBuffer
    /\ analysisStream' = <<>>
    /\ analysisWindows' = <<>>
    /\ analysisResult' = [op |-> "remove",
                          err |-> IF analysisRing = NoBuffer THEN "NotFound"
                                  ELSE "ok",
                          bytes |-> <<>>]
    /\ UNCHANGED outsideAnalysis

NextAnalysis ==
    \/ \E w \in 1..MaxWindow, slack \in 0..MaxSlack :
          \E o \in 0..(w - 1) : AnalysisAllocate(w, o, slack)
    \/ \E bytes \in WriteInputs : AnalysisWrite(bytes)
    \/ AnalysisExtract
    \/ AnalysisRemove

SpecAnalysis == Init /\ [][NextAnalysis]_vars

\* ------------------------------------------------------------------------
\* Decoder supervisor: the supervision loop of one network source
\* ------------------------------------------------------------------------

\* Bounds: the clock, and the configuration of the restart throttle: at
\* most SpawnCeiling spawns in any SpawnWindow time units, and at least
\* BackoffDelay between an exit and the restart.
MaxSupTime == 7
SpawnCeiling == 2
SpawnWindow == 3
BackoffDelay == 1

\* Bound: the restart budget, the number of restarts after which one more
\* exit of the subprocess is surfaced as StreamDegraded.
RestartBudget == 2

\* The restarts made so far: every spawn but the first.
Restarts(times) == IF Len(times) = 0 THEN 0 ELSE Len(times) - 1

\* Whether an exit is surfaced as StreamDegraded: only once the restart
\* budget is used up.
SurfaceDegraded_EveryExit(times) == TRUE

SurfaceDegraded(times) == Restarts(times) >= RestartBudget

\* The earliest time, from t on, at which one more spawn keeps the spawns of
\* every window of SpawnWindow time units at SpawnCeiling or fewer.
ThrottledRestart_DelayOnly(times, t) == t + BackoffDelay

ThrottledRestart(times, t) ==
    LET n == Len(times)
        free == IF n < SpawnCeiling THEN 0
                ELSE times[n - SpawnCeiling + 1] + SpawnWindow
    IN IF free > t + BackoffDelay THEN free ELSE t + BackoffDelay

\* Start(source): spawns the decoding subprocess.
SupStart ==
    /\ supState = "Stopped"
    /\ ~supStopped
    /\ spawnTimes = <<>>
    /\ supState' = "Running"
    /\ procAlive' = TRUE
    /\ spawnTimes' = Append(spawnTimes, supNow)
    /\ UNCHANGED <<supStopped, restartAt, supNow, degraded>>
    /\ UNCHANGED outsideSupervisor

\* The subprocess exits by itself: while the loop is Running it goes to
\* Backoff and schedules the restart; the exit is surfaced as StreamDegraded
\* when the restart budget is used up.
SupProcessExit ==
    /\ procAlive
    /\ procAlive' = FALSE
    /\ IF supState = "Running"
       THEN /\ supState' = "Backoff"
            /\ restartAt' = [Pending |-> TRUE,
                             at |-> ThrottledRestart(spawnTimes, supNow)]
            /\ degraded' = (degraded \/ SurfaceDegraded(spawnTimes))
       ELSE UNCHANGED <<supState, restartAt, degraded>>
    /\ UNCHANGED <<supStopped, spawnTimes, supNow>>
    /\ UNCHANGED outsideSupervisor

\* The backoff delay is over: the subprocess is restarted, unless the loop
\* has been stopped meanwhile.
SupBackoffElapsed_IgnoresStop ==
    /\ restartAt # NoRestart
    /\ supNow >= restartAt.at
    /\ restartAt' = NoRestart
    /\ supState' = "Running"
    /\ procAlive' = TRUE
    /\ spawnTimes' = Append(spawnTimes, supNow)
    /\ UNCHANGED <<supStopped, supNow, degraded>>
    /\ UNCHANGED outsideSupervisor

SupBackoffElapsed ==
    /\ restartAt # NoRestart
    /\ supNow >= restartAt.at
    /\ restartAt' = NoRestart
    /\ IF supState = "Backoff"
       THEN /\ supState' = "Running"
            /\ procAlive' = TRUE
            /\ spawnTimes' = Append(spawnTimes, supNow)
       ELSE UNCHANGED <<supState, procAlive, spawnTimes>>
    /\ UNCHANGED <<supStopped, supNow, degraded>>
    /\ UNCHANGED outsideSupervisor

\* Stop(source): the subprocess is terminated and reaped, the loop is
\* Stopped; the timer of a pending restart is left to run out.
SupStop ==
    /\ supStopped' = TRUE
    /\ supState' = "Stopped"
    /\ procAlive' = FALSE
    /\ UNCHANGED <<restartAt, spawnTimes, supNow, degraded>>
    /\ UNCHANGED outsideSupervisor

\* One time unit passes.
SupTick ==
    /\ supNow < MaxSupTime
    /\ supNow' = supNow + 1
    /\ UNCHANGED <<supState, supStopped, procAlive, restartAt, spawnTimes,
                   degraded>>
    /\ UNCHANGED outsideSupervisor

NextSupervisor ==
    \/ SupStart
    \/ SupProcessExit
    \/ SupBackoffElapsed
    \/ SupStop
    \/ SupTick

SpecSupervisor == Init /\ [][NextSupervisor]_vars

\* The supervision loop with its scheduling: the clock advances, and a
\* restart timer that is due fires.
SpecSupervisorLive ==
    /\ Init
    /\ [][NextSupervisor]_vars
    /\ WF_vars(SupTick)
    /\ WF_vars(SupBackoffElapsed)

\* ------------------------------------------------------------------------
\* BirdNET.Predict: sigmoid, pairing with the labels, ranking, top ten
\* ------------------------------------------------------------------------

\* Bounds: the number of labels and of model outputs (more than the ten
\* results Predict keeps), and the stride of the output patterns.
MaxOutputs == 11
MaxStride == 2

\* return trimResultsToMax(results, 10), nil
TopResults == 10

\* Raw model outputs are the integers -2..2, the sensitivity is 1 or 2.
Sensitivities == {1, 2}

\* 1000 / (1 + exp(-z)) for z = -4..4, rounded: the confidence in thousandths.
SigmoidMilli == <<18, 47, 119, 269, 500, 731, 881, 953, 982>>

\* customSigmoid(x, sensitivity) = 1 / (1 + exp(-sensitivity * x))
customSigmoid(x, sensitivity) == SigmoidMilli[sensitivity * x + 5]

\* applySigmoidToPredictions(predictions, sensitivity)
applySigmoidToPredictions(predictions, sensitivity) ==
    [i \in 1..Len(predictions) |-> customSigmoid(predictions[i], sensitivity)]

\* pairLabelsAndConfidence(labels, preds): an error when the lengths differ,
\* else result i pairs labels[i] with preds[i].
pairLabelsAndConfidence(labels, preds) ==
    IF Len(labels) # Len(preds)
    THEN [err |-> "mismatched lengths", results |-> <<>>]
    ELSE [err |-> "ok",
          results |-> [i \in 1..Len(labels) |->
                          [Species |-> labels[i], Confidence |-> preds[i]]]]

\* sortResults(results): sort.Slice with less = Confidence greater.  The
\* sort is not stable: results of equal confidence come out in either order
\* (stable TRUE: as they were, FALSE: reversed).
sortResults(results, stable) ==
    LET n == Len(results)
        Before(i, j) ==
            \/ results[i].Confidence > results[j].Confidence
            \/ /\ results[i].Confidence = results[j].Confidence
               /\ IF stable THEN i < j ELSE i > j
        Rank(i) == Cardinality({j \in 1..n : Before(j, i)}) + 1
    IN [k \in 1..n |-> results[CHOOSE i \in 1..n : Rank(i) = k]]

\* trimResultsToMax(results, maxResults)
trimResultsToMax_KeepsAll(results, maxResults) == results

trimResultsToMax(results, maxResults) ==
    IF Len(results) > maxResults THEN SubSeq(results, 1, maxResults)
    ELSE results

\* What Predict returns: an error and no results when the interpreter has
\* no input tensor, when Invoke fails or when the labels do not match the
\* outputs; else the first ten of the sorted results.
PredictReturn(input, stable) ==
    LET confidence == applySigmoidToPredictions(input.outputs,
                                                input.sensitivity)
        paired == pairLabelsAndConfidence(input.labels, confidence)
    IN IF input.interpreter = "no input tensor"
       THEN [err |-> "cannot get input tensor", results |-> <<>>]
       ELSE IF input.interpreter = "invoke fails"
       THEN [err |-> "tensor invoke failed", results |-> <<>>]
       ELSE IF paired.err # "ok"
       THEN [err |-> paired.err, results |-> <<>>]
       ELSE [err |-> "ok",
             results |-> trimResultsToMax(sortResults(paired.results, stable),
                                          TopResults)]

\* The calls of Predict: label i is species i; output i follows a pattern of
\* stride a from offset b over the raw outputs -2..2.
PredictInputs ==
    {[labels |-> [i \in 1..nl |-> i],
      outputs |-> [i \in 1..no |-> ((i * a + b) % 5) - 2],
      sensitivity |-> sens,
      interpreter |-> interp] :
        nl \in 0..MaxOutputs, no \in 0..MaxOutputs, a \in 0..MaxStride,
        b \in 0..4, sens \in Sensitivities,
        interp \in {"ok", "no input tensor", "invoke fails"}}

InitPredict ==
    /\ InitRegistry
    /\ InitReloadIdle
    /\ InitControl
    /\ InitAuthIdle
    /\ InitLevelIdle
    /\ InitChan
    /\ InitMonitorIdle
    /\ InitCapture
    /\ InitAnalysis
    /\ InitSupervisor
    /\ InitConn
    /\ InitCleanIdle
    /\ predInput \in PredictInputs
    /\ predResult = NoResult

\* bn.Predict(sample)
Predict(stable) ==
    /\ predResult = NoResult
    /\ predResult' = PredictReturn(predInput, stable)
    /\ UNCHANGED predInput
    /\ UNCHANGED outsidePredict

NextPredict == \E stable \in BOOLEAN : Predict(stable)

SpecPredict == InitPredict /\ [][NextPredict]_vars

\* ------------------------------------------------------------------------
\* AudioLevelSSE: the requests of the clients, from LoadOrStore to return
\* ------------------------------------------------------------------------

\* Bounds: the number of requests, and the time by which the timeout timer
\* of every accepted request has fired (the clock runs on until it has
\* reached that time).
NumRequests == 2
MaxConnTime == 100

\* connectionTimeout = 65 * time.Second
connectionTimeout == 65

\* The clock is read at multiples of the timeout.
ConnClockSteps == {connectionTimeout}

Requests == 1..NumRequests

\* Request r is inside the handler: accepted and not yet returned.
Live(r) == r \in DOMAIN connPc /\ connPc[r] \in {"init", "loop", "returning"}

\* A request arrives: LoadOrStore(clientIP).  A registered IP: 429 and
\* return.  Else the entry is stored, the deferred Delete is registered, the
\* timeout timer is started and the SSE headers are written with status 200.
ConnRequest_DeferBeforeCheck(ip) ==
    /\ Len(connPc) < NumRequests
    /\ connIp' = Append(connIp, ip)
    /\ connExit' = Append(connExit, "none")
    /\ connEvents' = Append(connEvents, 0)
    /\ IF ip \in activeSSEConnections
       THEN /\ connPc' = Append(connPc, "rejected")
            /\ connStatus' = Append(connStatus, 429)
            /\ connDeadline' = Append(connDeadline, 0)
            /\ activeSSEConnections' = activeSSEConnections \ {ip}
       ELSE /\ connNow + connectionTimeout <= MaxConnTime
            /\ connPc' = Append(connPc, "init")
            /\ connStatus' = Append(connStatus, 200)
            /\ connDeadline' = Append(connDeadline, connNow + connectionTimeout)
            /\ activeSSEConnections' = activeSSEConnections \cup {ip}
    /\ UNCHANGED connNow
    /\ UNCHANGED outsideConn

ConnRequest(ip) ==
    /\ Len(connPc) < NumRequests
    /\ connIp' = Append(connIp, ip)
    /\ connExit' = Append(connExit, "none")
    /\ connEvents' = Append(connEvents, 0)
    /\ IF ip \in activeSSEConnections
       THEN /\ connPc' = Append(connPc, "rejected")
            /\ connStatus' = Append(connStatus, 429)
            /\ connDeadline' = Append(connDeadline, 0)
            /\ UNCHANGED activeSSEConnections
       ELSE /\ connNow + connectionTimeout <= MaxConnTime
            /\ connPc' = Append(connPc, "init")
            /\ connStatus' = Append(connStatus, 200)
            /\ connDeadline' = Append(connDeadline, connNow + connectionTimeout)
            /\ activeSSEConnections' = activeSSEConnections \cup {ip}
    /\ UNCHANGED connNow
    /\ UNCHANGED outsideConn

\* A return statement of the handler after the defer was registered.
Leave(r, path) ==
    /\ connPc' = [connPc EXCEPT ![r] = "returning"]
    /\ connExit' = [connExit EXCEPT ![r] = path]
    /\ connEvents' = [connEvents EXCEPT ![r] = 0]

\* The initial sendLevelsUpdate: on an error the handler returns.
ConnInitialSend_NoCleanup(r, writeOk) ==
    /\ r \in DOMAIN connPc
    /\ connPc[r] = "init"
    /\ connPc' = [connPc EXCEPT ![r] = IF writeOk THEN "loop" ELSE "done"]
    /\ connExit' = [connExit EXCEPT
                       ![r] = IF writeOk THEN @ ELSE "initial update"]
    /\ UNCHANGED <<connIp, connDeadline, connStatus, connEvents, connNow,
                   activeSSEConnections>>
    /\ UNCHANGED outsideConn

ConnInitialSend(r, writeOk) ==
    /\ r \in DOMAIN connPc
    /\ connPc[r] = "init"
    /\ IF writeOk
       THEN /\ connPc' = [connPc EXCEPT ![r] = "loop"]
            /\ UNCHANGED <<connExit, connEvents>>
       ELSE Leave(r, "initial update")
    /\ UNCHANGED <<connIp, connDeadline, connStatus, connNow,
                   activeSSEConnections>>
    /\ UNCHANGED outsideConn

\* case audioData := <-h.AudioLevelChan: the maps are updated; the update is
\* sent when 50 ms have elapsed, and an error of the send makes the handler
\* return.
ConnLevelEvent_ResetsTimer(r, elapsed, writeOk) ==
    /\ r \in DOMAIN connPc
    /\ connPc[r] = "loop"
    /\ connDeadline' = [connDeadline EXCEPT ![r] = connNow + connectionTimeout]
    /\ IF elapsed /\ ~writeOk THEN Leave(r, "update")
       ELSE /\ connEvents' = [connEvents EXCEPT ![r] = (@ + 1) % 2]
            /\ UNCHANGED <<connPc, connExit>>
    /\ UNCHANGED <<connIp, connStatus, connNow, activeSSEConnections>>
    /\ UNCHANGED outsideConn

ConnLevelEvent(r, elapsed, writeOk) ==
    /\ r \in DOMAIN connPc
    /\ connPc[r] = "loop"
    /\ connDeadline' = connDeadline
    /\ IF elapsed /\ ~writeOk THEN Leave(r, "update")
       ELSE /\ connEvents' = [connEvents EXCEPT ![r] = (@ + 1) % 2]
            /\ UNCHANGED <<connPc, connExit>>
    /\ UNCHANGED <<connIp, connStatus, connNow, activeSSEConnections>>
    /\ UNCHANGED outsideConn

\* case <-activityCheck.C: the update is sent when a level changed.
ConnActivityCheck(r, updated, writeOk) ==
    /\ r \in DOMAIN connPc
    /\ connPc[r] = "loop"
    /\ IF updated /\ ~writeOk THEN Leave(r, "update")
       ELSE UNCHANGED <<connPc, connExit, connEvents>>
    /\ UNCHANGED <<connIp, connDeadline, connStatus, connNow,
                   activeSSEConnections>>
    /\ UNCHANGED outsideConn

\* case <-heartbeat.C
ConnHeartbeat(r, writeOk) ==
    /\ r \in DOMAIN connPc
    /\ connPc[r] = "loop"
    /\ IF ~writeOk THEN Leave(r, "heartbeat")
       ELSE UNCHANGED <<connPc, connExit, connEvents>>
    /\ UNCHANGED <<connIp, connDeadline, connStatus, connNow,
                   activeSSEConnections>>
    /\ UNCHANGED outsideConn

\* case <-timeout.C: the timer has fired.
ConnTimeout(r) ==
    /\ r \in DOMAIN connPc
    /\ connPc[r] = "loop"
    /\ connNow >= connDeadline[r]
    /\ Leave(r, "timeout")
    /\ UNCHANGED <<connIp, connDeadline, connStatus, connNow,
                   activeSSEConnections>>
    /\ UNCHANGED outsideConn

\* case <-c.Request().Context().Done()
ConnClientGone(r) ==
    /\ r \in DOMAIN connPc
    /\ connPc[r] = "loop"
    /\ Leave(r, "client gone")
    /\ UNCHANGED <<connIp, connDeadline, connStatus, connNow,
                   activeSSEConnections>>
    /\ UNCHANGED outsideConn

\* The handler returns: the deferred activeSSEConnections.Delete(clientIP).
ConnReturn(r) ==
    /\ r \in DOMAIN connPc
    /\ connPc[r] = "returning"
    /\ connPc' = [connPc EXCEPT ![r] = "done"]
    /\ activeSSEConnections' = activeSSEConnections \ {connIp[r]}
    /\ UNCHANGED <<connIp, connDeadline, connStatus, connExit, connEvents,
                   connNow>>
    /\ UNCHANGED outsideConn

\* Time passes.
ConnTick ==
    /\ connNow < MaxConnTime
    /\ \E d \in ConnClockSteps : connNow' = connNow + d
    /\ UNCHANGED <<connPc, connIp, connDeadline, connStatus, connExit,
                   connEvents, activeSSEConnections>>
    /\ UNCHANGED outsideConn

NextConn ==
    \/ \E ip \in ClientIPs : ConnRequest(ip)
    \/ \E r \in Requests, writeOk \in BOOLEAN : ConnInitialSend(r, writeOk)
    \/ \E r \in Requests, elapsed \in BOOLEAN, writeOk \in BOOLEAN :
          ConnLevelEvent(r, elapsed, writeOk)
    \/ \E r \in Requests, updated \in BOOLEAN, writeOk \in BOOLEAN :
          ConnActivityCheck(r, updated, writeOk)
    \/ \E r \in Requests, writeOk \in BOOLEAN : ConnHeartbeat(r, writeOk)
    \/ \E r \in Requests : ConnTimeout(r)
    \/ \E r \in Requests : ConnClientGone(r)
    \/ \E r \in Requests : ConnReturn(r)
    \/ ConnTick

SpecConn == Init /\ [][NextConn]_vars

\* The requests with their scheduling: time passes, a write to the client
\* returns, the select takes the timeout case once the timer has fired, and
\* a returning handler runs its deferred calls.
SpecConnLive ==
    /\ Init
    /\ [][NextConn]_vars
    /\ WF_vars(ConnTick)
    /\ \A r \in Requests :
          /\ WF_vars(\E writeOk \in BOOLEAN : ConnInitialSend(r, writeOk))
          /\ WF_vars(ConnTimeout(r))
          /\ WF_vars(ConnReturn(r))

\* ------------------------------------------------------------------------
\* cleanRTSPUrl
\* ------------------------------------------------------------------------

\* Bound: the length of the password of an RTSP URL.
MaxPassLen == 2

\* A string is the sequence of its characters.  "rtsp://"
Prefix == <<"r", "t", "s", "p", ":", "/", "/">>

\* The URLs rtsp://[userinfo@]host[:port][/path]: the userinfo is u:password
\* with a password over the characters p, @ and /; the path may hold an @.
CleanInputs ==
    LET passwords == UNION {[1..n -> {"p", "@", "/"}] : n \in 0..MaxPassLen}
        userinfos == {<<>>} \cup {<<"u", ":">> \o pw \o <<"@">> :
                                    pw \in passwords}
        hosts == {<<"h">>, <<"h", ":", "8">>}
        paths == {<<>>, <<"/">>, <<"/", "a">>, <<"/", "@">>}
    IN {[userinfo |-> ui, host |-> h, path |-> pa,
         url |-> Prefix \o ui \o h \o pa] :
            ui \in userinfos, h \in hosts, pa \in paths}

\* for i := len("rtsp://"); i < len(url); i++ { if url[i] == ch {...; break} }
\* The position (from 1) of the first ch at or after position from, 0 when
\* there is none (the code's -1).
IndexFrom(str, ch, from) ==
    LET hits == {i \in from..Len(str) : str[i] = ch}
    IN IF hits = {} THEN 0
       ELSE CHOOSE i \in hits : \A j \in hits : i <= j

\* cleanRTSPUrl(url): "rtsp://" and what follows the first @, cut before
\* the first slash after "rtsp://".
cleanRTSPUrl(url) ==
    LET atIndex == IndexFrom(url, "@", Len(Prefix) + 1)
        kept == IF atIndex > 0
                THEN Prefix \o SubSeq(url, atIndex + 1, Len(url))
                ELSE url
        slashIndex == IndexFrom(kept, "/", Len(Prefix) + 1)
    IN IF slashIndex > 0 THEN SubSeq(kept, 1, slashIndex - 1) ELSE kept

InitClean ==
    /\ InitRegistry
    /\ InitReloadIdle
    /\ InitControl
    /\ InitAuthIdle
    /\ InitLevelIdle
    /\ InitChan
    /\ InitMonitorIdle
    /\ InitCapture
    /\ InitAnalysis
    /\ InitSupervisor
    /\ InitPredictIdle
    /\ InitConn
    /\ cleanInput \in CleanInputs
    /\ cleanOutput = NoResult

\* displayName = cleanRTSPUrl(url)
CleanURL ==
    /\ cleanOutput = NoResult
    /\ cleanOutput' = cleanRTSPUrl(cleanInput.url)
    /\ UNCHANGED cleanInput
    /\ UNCHANGED outsideClean

NextClean == CleanURL

SpecClean == InitClean /\ [][NextClean]_vars

\* ------------------------------------------------------------------------
\* BirdNET.ReloadModel beside BirdNET.Predict (birdnet.go)
\* ------------------------------------------------------------------------
MaxReloads == 2
MaxLabels == 2

\* The label names a label file can hold, and every label file.
LabelNames == 1..2
LabelFiles == UNION {[1..n -> LabelNames] : n \in 0..MaxLabels}

\* The sizes of the output tensor of a model file.
OutputSizes == 1..MaxLabels

\* tflite.NewInterpreter returned a non-nil interpreter: it becomes interpreter
\* number Len(interps) + 1.
NewInterpreter(interps, state, outs, born) ==
    Append(interps, Interpreter(state, outs, born))

\* interpreter.Delete() behind the code's "!= nil" test.
DeleteInterpreter(interps, id) ==
    IF id = 0 THEN interps
    ELSE [interps EXCEPT ![id] = [@ EXCEPT !.state = "deleted",
                                           !.deletes = @ + 1]]

\* Where initializeModel can fail.
ModelFailures == {"none", "loadModel", "NewModel", "NewInterpreter",
                  "AllocateTensors"}

\* bn.initializeModel(): the instance it leaves and whether it returned an
\* error. bn.AnalysisInterpreter is assigned before the nil test and before
\* AllocateTensors.
initializeModel(b, fail, outs) ==
    CASE fail \in {"loadModel", "NewModel"} -> [bn |-> b, err |-> TRUE]
      [] fail = "NewInterpreter" ->
            [bn |-> [b EXCEPT !.analysis = 0], err |-> TRUE]
      [] fail = "AllocateTensors" ->
            [bn |-> [b EXCEPT
                       !.interps = NewInterpreter(@, "unallocated", outs,
                                                  b.reloads),
                       !.analysis = Len(b.interps) + 1],
             err |-> TRUE]
      [] OTHER ->
            [bn |-> [b EXCEPT
                       !.interps = NewInterpreter(@, "ready", outs, b.reloads),
                       !.analysis = Len(b.interps) + 1],
             err |-> FALSE]

\* Where initializeMetaModel can fail.
MetaFailures == {"none", "NewModel", "NewInterpreter", "AllocateTensors"}

\* bn.initializeMetaModel(), likewise for bn.RangeInterpreter.
initializeMetaModel(b, fail) ==
    CASE fail = "NewModel" -> [bn |-> b, err |-> TRUE]
      [] fail = "NewInterpreter" ->
            [bn |-> [b EXCEPT !.range = 0], err |-> TRUE]
      [] fail = "AllocateTensors" ->
            [bn |-> [b EXCEPT
                       !.interps = NewInterpreter(@, "unallocated", 0,
                                                  b.reloads),
                       !.range = Len(b.interps) + 1],
             err |-> TRUE]
      [] OTHER ->
            [bn |-> [b EXCEPT
                       !.interps = NewInterpreter(@, "ready", 0, b.reloads),
                       !.range = Len(b.interps) + 1],
             err |-> FALSE]

\* Where loadLabels can fail: before the first line is read (the file or the
\* archive entry cannot be opened) or while the scanner reads the lines.
LabelFailures == {"none", "open", "scan"}

\* bn.loadLabels(): the list is reset first, then the lines read are appended;
\* on a scanner error the first k lines stay in the list.
loadLabels(b, fail, file, k) ==
    CASE fail = "open" -> [bn |-> [b EXCEPT !.labels = <<>>], err |-> TRUE]
      [] fail = "scan" ->
            [bn |-> [b EXCEPT !.labels = SubSeq(file, 1, k)], err |-> TRUE]
      [] OTHER -> [bn |-> [b EXCEPT !.labels = file], err |-> FALSE]

\* bn.validateModelAndLabels(): an error unless the output tensor exists and
\* its last dimension equals the number of labels.
validateModelAndLabels(b, tensorOk) ==
    \/ ~tensorOk
    \/ Len(b.labels) # b.interps[b.analysis].outs

\* The deferred bn.mu.Unlock() of ReloadModel and its return value.
ReloadReturn(b, err) ==
    [b EXCEPT !.mu = "free", !.rpc = "idle", !.err = err]

\* "Restore the old interpreters"
RestoreOld(b) ==
    [b EXCEPT !.analysis = b.oldAnalysis, !.range = b.oldRange]

\* bn.mu.Lock() of ReloadModel and the two old* assignments.
ReloadLock ==
    /\ bn.rpc = "idle"
    /\ bn.mu = "free"
    /\ bn.reloads < MaxReloads
    /\ bn' = [bn EXCEPT !.mu = "reload", !.rpc = "model",
                        !.oldAnalysis = bn.analysis, !.oldRange = bn.range,
                        !.before = [analysis |-> bn.analysis,
                                    range |-> bn.range,
                                    labels |-> bn.labels],
                        !.err = "pending", !.reloads = @ + 1]
    /\ UNCHANGED outsideReload

\* "Initialize new model": on an error ReloadModel returns at once.
ReloadInitModel(fail, outs) ==
    /\ bn.rpc = "model"
    /\ LET r == initializeModel(bn, fail, outs)
       IN bn' = IF r.err THEN ReloadReturn(r.bn, "model")
                ELSE [r.bn EXCEPT !.rpc = "meta"]
    /\ UNCHANGED outsideReload

\* "Initialize new meta model": on an error the new analysis interpreter is
\* deleted and the old pair restored.
ReloadInitMeta(fail) ==
    /\ bn.rpc = "meta"
    /\ LET r == initializeMetaModel(bn, fail)
           d == [r.bn EXCEPT
                   !.interps = DeleteInterpreter(@, r.bn.analysis)]
       IN bn' = IF r.err THEN ReloadReturn(RestoreOld(d), "meta")
                ELSE [r.bn EXCEPT !.rpc = "labels"]
    /\ UNCHANGED outsideReload

\* The cleanup of the label and validation failures: both current
\* interpreters are deleted and the old pair restored.
DeleteNewAndRestore(b) ==
    RestoreOld([b EXCEPT
                  !.interps = DeleteInterpreter(
                                 DeleteInterpreter(@, b.analysis), b.range)])

\* "Reload labels"
ReloadLabels(fail, file, k) ==
    /\ bn.rpc = "labels"
    /\ LET r == loadLabels(bn, fail, file, k)
       IN bn' = IF r.err THEN ReloadReturn(DeleteNewAndRestore(r.bn), "labels")
                ELSE [r.bn EXCEPT !.rpc = "validate"]
    /\ UNCHANGED outsideReload

\* "Validate that the model and labels match", then "Clean up old
\* interpreters after successful reload".
ReloadValidate(tensorOk) ==
    /\ bn.rpc = "validate"
    /\ bn' = IF validateModelAndLabels(bn, tensorOk)
             THEN ReloadReturn(DeleteNewAndRestore(bn), "validate")
             ELSE ReloadReturn(
                    [bn EXCEPT
                       !.interps = DeleteInterpreter(
                                      DeleteInterpreter(@, bn.oldAnalysis),
                                      bn.oldRange)],
                    "none")
    /\ UNCHANGED outsideReload

\* bn.mu.Lock() of Predict.
PredictLock ==
    /\ bn.ppc = "idle"
    /\ bn.mu = "free"
    /\ bn' = [bn EXCEPT !.mu = "predict", !.ppc = "locked"]
    /\ UNCHANGED outsideReload

\* What bn.AnalysisInterpreter is when Predict uses it.
InterpreterState(b) ==
    IF b.analysis = 0 THEN "nil" ELSE b.interps[b.analysis].state

\* The body of Predict: it invokes bn.AnalysisInterpreter and pairs the
\* labels with the output tensor, then the deferred Unlock runs.
PredictInvoke ==
    /\ bn.ppc = "locked"
    /\ bn' = [bn EXCEPT
                !.invoked = InterpreterState(bn),
                !.paired = IF InterpreterState(bn) # "ready" THEN "none"
                           ELSE IF Len(bn.labels) = bn.interps[bn.analysis].outs
                                THEN "ok" ELSE "mismatched",
                !.mu = "free", !.ppc = "idle"]
    /\ UNCHANGED outsideReload

NextReload ==
    \/ ReloadLock
    \/ \E fail \in ModelFailures, outs \in OutputSizes :
          ReloadInitModel(fail, outs)
    \/ \E fail \in MetaFailures : ReloadInitMeta(fail)
    \/ \E fail \in LabelFailures, file \in LabelFiles :
          \E k \in 0..Len(file) : ReloadLabels(fail, file, k)
    \/ \E tensorOk \in BOOLEAN : ReloadValidate(tensorOk)
    \/ PredictLock
    \/ PredictInvoke

\* NewBirdNET has returned the instance.
InitBirdNET ==
    /\ InitRegistry
    /\ InitLevelIdle
    /\ InitChan
    /\ InitMonitorIdle
    /\ InitCapture
    /\ InitAnalysis
    /\ InitSupervisor
    /\ InitPredictIdle
    /\ InitConn
    /\ InitCleanIdle
    /\ InitControl
    /\ InitAuthIdle
    /\ InitReload

SpecReload == InitBirdNET /\ [][NextReload]_vars

\* ------------------------------------------------------------------------
\* Processor.controlSignalMonitor (control.go)
\* ------------------------------------------------------------------------
MaxSignals == 3
ControlChanCap == 2

\* Control signal types
RebuildRangeFilter == "rebuild_range_filter"
ReloadBirdNET == "reload_birdnet"

\* What can be sent on p.controlChan: the two defined types and a string that
\* is neither.
Signals == {RebuildRangeFilter, ReloadBirdNET, "undefined"}

\* The switch of the loop body: what the goroutine does with one signal.
\* buildOk is the outcome of p.BuildRangeFilter().
HandleSignal(signal, buildOk) ==
    CASE signal = RebuildRangeFilter ->
            IF buildOk THEN "range filter rebuilt"
            ELSE "range filter rebuild failed"
      [] OTHER -> "unknown signal logged"

\* p.controlChan <- signal, by any sender; a full channel blocks the sender.
ControlSend(signal) ==
    /\ Len(ctl.log) < MaxSignals
    /\ Len(ctl.chan) < ControlChanCap
    /\ ctl' = [ctl EXCEPT !.chan = Append(@, signal),
                          !.log = Append(@, signal)]
    /\ UNCHANGED outsideControl

\* One iteration of "for signal := range p.controlChan".
ControlHandle(buildOk) ==
    /\ ctl.chan # <<>>
    /\ ctl' = [ctl EXCEPT
                 !.chan = Tail(@),
                 !.handled = Append(@, [signal |-> Head(ctl.chan),
                                        action |-> HandleSignal(Head(ctl.chan),
                                                                buildOk)])]
    /\ UNCHANGED outsideControl

NextControl ==
    \/ \E signal \in Signals : ControlSend(signal)
    \/ \E buildOk \in BOOLEAN : ControlHandle(buildOk)

SpecControl == Init /\ [][NextControl]_vars

\* The goroutine is scheduled: a signal waiting in the channel is received.
SpecControlLive ==
    SpecControl /\ WF_vars(\E buildOk \in BOOLEAN : ControlHandle(buildOk))

\* ------------------------------------------------------------------------
\* OAuth2Server: authorization codes and access tokens (package security)
\* ------------------------------------------------------------------------
MaxStrings == 3
MaxAuthTime == 2

\* Settings.Security.BasicAuth.AuthCodeExp and AccessTokenExp, in clock steps.
AuthCodeExp == 1
AccessTokenExp == 1

\* The strings rand.Read has produced are numbered in the order of their
\* generation: 32 random bytes do not repeat. auth.strings[id] is the history
\* of string id: whether it was made as a code or as a token, its expiry,
\* and for a code the ExchangeAuthCode calls made with it up to its expiry
\* (tried), those that returned a token (won) and whether one of them failed
\* to generate its token (failed). String 0 stands for every string the
\* server never generated.
AuthString(kind, expires) ==
    [kind |-> kind, expires |-> expires, tried |-> 0, won |-> 0,
     failed |-> FALSE]

Known == 0..Len(auth.strings)

\* delete(m, key)
MapDelete(m, key) == [k \in DOMAIN m \ {key} |-> m[k]]

\* m[key] = value, for a key that is not in the map
MapStore(m, key, value) ==
    [k \in DOMAIN m \cup {key} |-> IF k = key THEN value ELSE m[k]]

\* The test of ExchangeAuthCode: the code is in the map and
\* time.Now().After(authCode.ExpiresAt) is false.
Exchangeable(codes, code, t) == code \in DOMAIN codes /\ ~(t > codes[code])

\* The body of ValidateAccessToken: the token is in the map and
\* time.Now().Before(accessToken.ExpiresAt).
validateAccessToken_IgnoresExpiry(tokens, token, t) == token \in DOMAIN tokens

validateAccessToken(tokens, token, t) ==
    token \in DOMAIN tokens /\ t < tokens[token]

\* The two loops of the cleanup: the entries with now.After(ExpiresAt) are
\* deleted.
Unexpired_AtExpiry(m, t) == [k \in {j \in DOMAIN m : t < m[j]} |-> m[k]]

Unexpired(m, t) == [k \in {j \in DOMAIN m : ~(t > m[j])} |-> m[k]]

AuthResult(op, arg, ok, ret) == [op |-> op, arg |-> arg, ok |-> ok, ret |-> ret]

\* GenerateAuthCode(): an error of rand.Read stores nothing.
GenerateAuthCode(randOk) ==
    /\ Len(auth.strings) < MaxStrings
    /\ LET code == Len(auth.strings) + 1
       IN auth' = IF randOk
                  THEN [auth EXCEPT
                          !.strings = Append(@, AuthString("code",
                                                  auth.now + AuthCodeExp)),
                          !.authCodes = MapStore(@, code,
                                                 auth.now + AuthCodeExp),
                          !.last = AuthResult("generate", 0, TRUE, code)]
                  ELSE [auth EXCEPT
                          !.last = AuthResult("generate", 0, FALSE, 0)]
    /\ UNCHANGED outsideAuth

\* The history of an ExchangeAuthCode(code) call.
Tried(strings, code, t, won, failed) ==
    IF code \in 1..Len(strings) /\ strings[code].kind = "code"
       /\ t <= strings[code].expires
    THEN [strings EXCEPT ![code] =
            [@ EXCEPT !.tried = IF @ < 2 THEN @ + 1 ELSE @,
                      !.won = IF won THEN @ + 1 ELSE @,
                      !.failed = @ \/ failed]]
    ELSE strings

\* ExchangeAuthCode(code), the whole call under s.mutex: the code is deleted
\* before the token is generated.
ExchangeAuthCode_KeepsCode(code, randOk) ==
    /\ Exchangeable(auth.authCodes, code, auth.now) /\ randOk
          => Len(auth.strings) < MaxStrings
    /\ LET token == Len(auth.strings) + 1
       IN auth' =
            IF ~Exchangeable(auth.authCodes, code, auth.now)
            THEN [auth EXCEPT
                    !.strings = Tried(@, code, auth.now, FALSE, FALSE),
                    !.last = AuthResult("exchange", code, FALSE, 0)]
            ELSE IF ~randOk
            THEN [auth EXCEPT
                    !.strings = Tried(@, code, auth.now, FALSE, TRUE),
                    !.last = AuthResult("exchange", code, FALSE, 0)]
            ELSE [auth EXCEPT
                    !.accessTokens = MapStore(@, token,
                                              auth.now + AccessTokenExp),
                    !.strings = Append(Tried(@, code, auth.now, TRUE, FALSE),
                                       AuthString("token",
                                                  auth.now + AccessTokenExp)),
                    !.last = AuthResult("exchange", code, TRUE, token)]
    /\ UNCHANGED outsideAuth

ExchangeAuthCode(code, randOk) ==
    /\ Exchangeable(auth.authCodes, code, auth.now) /\ randOk
          => Len(auth.strings) < MaxStrings
    /\ LET token == Len(auth.strings) + 1
       IN auth' =
            IF ~Exchangeable(auth.authCodes, code, auth.now)
            THEN [auth EXCEPT
                    !.strings = Tried(@, code, auth.now, FALSE, FALSE),
                    !.last = AuthResult("exchange", code, FALSE, 0)]
            ELSE IF ~randOk
            THEN [auth EXCEPT
                    !.authCodes = MapDelete(@, code),
                    !.strings = Tried(@, code, auth.now, FALSE, TRUE),
                    !.last = AuthResult("exchange", code, FALSE, 0)]
            ELSE [auth EXCEPT
                    !.authCodes = MapDelete(@, code),
                    !.accessTokens = MapStore(@, token,
                                              auth.now + AccessTokenExp),
                    !.strings = Append(Tried(@, code, auth.now, TRUE, FALSE),
                                       AuthString("token",
                                                  auth.now + AccessTokenExp)),
                    !.last = AuthResult("exchange", code, TRUE, token)]
    /\ UNCHANGED outsideAuth

\* ValidateAccessToken(token), under the read lock.
ValidateAccessToken(token) ==
    /\ auth' = [auth EXCEPT
                  !.last = AuthResult("validate", token,
                              validateAccessToken(auth.accessTokens, token,
                                                  auth.now), 0)]
    /\ UNCHANGED outsideAuth

\* The ticker of StartAuthCleanup fires: "now := time.Now()", read before
\* the mutex is taken.
AuthCleanupWake ==
    /\ auth.cleanupNow = -1
    /\ auth' = [auth EXCEPT !.cleanupNow = auth.now,
                            !.last = AuthResult("wake", 0, TRUE, 0)]
    /\ UNCHANGED outsideAuth

\* The two loops of the cleanup, under s.mutex; last.ret is the number of
\* entries it deleted.
AuthCleanupSweep ==
    /\ auth.cleanupNow >= 0
    /\ LET codes == Unexpired(auth.authCodes, auth.cleanupNow)
           tokens == Unexpired(auth.accessTokens, auth.cleanupNow)
       IN auth' = [auth EXCEPT
                     !.authCodes = codes,
                     !.accessTokens = tokens,
                     !.cleanupNow = -1,
                     !.last = AuthResult("cleanup", 0, TRUE,
                                 Cardinality(DOMAIN auth.authCodes \ DOMAIN codes)
                                 + Cardinality(DOMAIN auth.accessTokens
                                               \ DOMAIN tokens))]
    /\ UNCHANGED outsideAuth

\* Time passes.
AuthTick ==
    /\ auth.now < MaxAuthTime
    /\ auth' = [auth EXCEPT !.now = @ + 1,
                            !.last = AuthResult("tick", 0, TRUE, 0)]
    /\ UNCHANGED outsideAuth

NextAuth ==
    \/ \E randOk \in BOOLEAN : GenerateAuthCode(randOk)
    \/ \E code \in Known, randOk \in BOOLEAN : ExchangeAuthCode(code, randOk)
    \/ \E token \in Known : ValidateAccessToken(token)
    \/ AuthCleanupWake
    \/ AuthCleanupSweep
    \/ AuthTick

\* NewOAuth2Server has returned the server.
InitOAuth2 ==
    /\ InitRegistry
    /\ InitLevelIdle
    /\ InitChan
    /\ InitMonitorIdle
    /\ InitCapture
    /\ InitAnalysis
    /\ InitSupervisor
    /\ InitPredictIdle
    /\ InitConn
    /\ InitCleanIdle
    /\ InitControl
    /\ InitReloadIdle
    /\ InitAuth

SpecAuth == InitOAuth2 /\ [][NextAuth]_vars

Next ==
    \/ ReconfigureEmpty
    \/ \E list \in URLLists : ReconfigureBegin(list)
    \/ \E url \in URLs : RemoveStopDecoder(url)
    \/ \E url \in URLs : RemoveMarkInactive(url)
    \/ RemoveBuffers
    \/ AddSkipActive
    \/ AddFailAnalysis
    \/ AddFailCapture
    \/ AddStart
    \/ \E url \in URLs : ProducerWrite(url)
    \/ \E url \in URLs : ProducerStartDecoder(url)
    \/ \E url \in URLs : ProducerExit(url)

Spec == Init /\ [][Next]_vars

\* ------------------------------------------------------------------------
\* Properties of ReconfigureRTSPStreams (checked under Spec)
\* ------------------------------------------------------------------------

\* C1: a removed source's buffers are freed only after its capture producer
\* has stopped: while a producer of a source is alive the source's buffers
\* exist, and no producer Write ever returns NotFound.
C1_FreedOnlyAfterProducerStopped ==
    /\ \A u \in URLs : producers[u] > 0 => WriteResult(u) = "ok"
    /\ lastWriteErr = FALSE

\* C2 as stated: a removal marks the source inactive first, then stops its
\* decoder, then frees its buffers; no decoder is stopped while its source
\* is still marked active.
C2_InactiveBeforeDecoderStop ==
    [][\A u \in URLs :
        /\ (u \in ffmpegProcesses /\ u \notin ffmpegProcesses')
              => u \notin activeStreams
        /\ ((u \in analysisBuffers /\ u \notin analysisBuffers')
              \/ (u \in captureBuffers /\ u \notin captureBuffers'))
              => u \notin activeStreams]_vars

\* C2 as amended: a removal first stops the source's decoder process, if it
\* has one, while the source is still marked active and has its buffers;
\* then it marks the source inactive, the buffers still in place; and only
\* last, in a step of its own, it frees the buffers of the inactive source.
C2_StopThenInactiveThenFree ==
    [][\A u \in URLs :
        /\ (u \in ffmpegProcesses /\ u \notin ffmpegProcesses')
              => /\ u \in activeStreams /\ u \in activeStreams'
                 /\ analysisBuffers' = analysisBuffers
                 /\ captureBuffers' = captureBuffers
        /\ (u \in activeStreams /\ u \notin activeStreams')
              => /\ rcPc = "rmInactive" \/ u \notin ffmpegProcesses
                 /\ analysisBuffers' = analysisBuffers
                 /\ captureBuffers' = captureBuffers
        /\ ((u \in analysisBuffers /\ u \notin analysisBuffers')
              \/ (u \in captureBuffers /\ u \notin captureBuffers'))
              => /\ u \notin activeStreams
                 /\ rcPc = "rmFree"]_vars

\* C2 witness: a removal has stopped the decoder of a source that is still
\* marked active and still has both buffers.
C2_Witness ==
    /\ rcPc = "rmInactive"
    /\ rcUrl \in activeStreams
    /\ rcUrl \notin ffmpegProcesses
    /\ rcUrl \in analysisBuffers /\ rcUrl \in captureBuffers

C4_OnlyListedSourcesRemain ==
    (rcPc = "idle" /\ calls > 0)
        => \A u \in URLs \ Range(urls) :
              /\ u \notin activeStreams
              /\ u \notin analysisBuffers
              /\ u \notin captureBuffers

\* C5 as stated: at the return of a call, a source whose allocation failed
\* is not active and no producer was started for it, and every other source
\* of the list is active.
C5_FailedSourceSkipped ==
    (rcPc = "idle" /\ calls > 0)
        => \A i \in 1..Len(urls) :
              /\ i \in callLog.fail
                    => /\ urls[i] \notin activeStreams
                       /\ \A j \in callLog.start : urls[j] # urls[i]
              /\ i \notin callLog.fail => urls[i] \in activeStreams

\* C5 as amended: a list entry whose allocation fails is skipped: that
\* iteration starts no producer and leaves the source inactive, and the
\* source is active at the return only when a later entry of the same list
\* names it again and is started; every entry that did not fail is active at
\* the return; so each call attempts every listed source that is not active,
\* the ones that failed in an earlier call included.
C5_FailedEntrySkipped ==
    (rcPc = "idle" /\ calls > 0)
        => \A i \in 1..Len(urls) :
              /\ i \in callLog.fail => i \notin callLog.start
              /\ (i \in callLog.fail /\ urls[i] \in activeStreams)
                    => \E j \in callLog.start : j > i /\ urls[j] = urls[i]
              /\ i \notin callLog.fail => urls[i] \in activeStreams
              /\ urls[i] \notin activeStreams => i \in callLog.fail

\* C5 witness: a call that repeats the list of the call before it has
\* returned; one entry failed and stayed inactive, and another source, which
\* had failed in the earlier call, was attempted again and started.
C5_Witness ==
    /\ rcPc = "idle" /\ repeat
    /\ \E i \in callLog.fail, j \in callLog.start :
          /\ urls[i] # urls[j]
          /\ urls[i] \notin activeStreams
          /\ urls[j] \in activeStreams

\* C6: at most one capture producer per source, at every moment.
C6_OneProducerPerSource == \A u \in URLs : producers[u] <= 1

\* ------------------------------------------------------------------------
\* Properties of the level-event path (checked under SpecChan)
\* ------------------------------------------------------------------------

\* C7: emitting a level event never blocks: whenever the forwarding
\* goroutine holds an event, its send step can be taken at once, also when
\* audioLevelChan is full and no client is receiving.
C7_ForwarderNeverBlocks == fwd # NoEvent => ENABLED ForwarderSend

\* ------------------------------------------------------------------------
\* Properties of calculateAudioLevel (checked under SpecLevel)
\* ------------------------------------------------------------------------

\* C8: an all-zero chunk of any length, the empty chunk and a chunk of a
\* single byte yield level 0 and clipping = false.
C8_ZeroChunk ==
    (levelData # NoResult
        /\ (Len(samples) <= 1 \/ \A i \in 1..Len(samples) : samples[i] = 0))
        => levelData = [Level |-> 0, Clipping |-> FALSE]

\* C8 witness: an all-zero chunk of several samples has been observed.
C8_Witness ==
    /\ levelData # NoResult
    /\ Len(samples) >= 4
    /\ \A i \in 1..Len(samples) : samples[i] = 0

\* C9: a chunk with a sample equal to 32767 (bytes FF 7F at a sample
\* position) yields clipping = true and level >= 95.
C9_MaxSampleClips ==
    (levelData # NoResult
        /\ \E i \in 1..(Len(samples) \div 2) :
              samples[2 * i - 1] = 255 /\ samples[2 * i] = 127)
        => levelData.Clipping /\ levelData.Level >= 95

\* C9 witness: one sample at 32767 among so many zero samples that the level
\* without the clipping rule is below 95; the level returned is 95.
C9_Witness ==
    /\ levelData # NoResult
    /\ Len(samples) >= 36
    /\ samples[Len(samples) - 1] = 255 /\ samples[Len(samples)] = 127
    /\ levelData = [Level |-> 95, Clipping |-> TRUE]

\* C10: clipping is true iff some complete little-endian sample is 32767
\* (FF 7F) or -32768 (00 80); an odd trailing byte takes no part.
C10_ClippingIffExtremeSample ==
    levelData # NoResult
        => (levelData.Clipping <=>
              \E i \in 1..(Len(samples) \div 2) :
                 \/ samples[2 * i - 1] = 255 /\ samples[2 * i] = 127
                 \/ samples[2 * i - 1] = 0 /\ samples[2 * i] = 128)

\* C10 witness: an odd-length chunk whose only extreme sample is -32768 and
\* whose trailing byte is 7F or 80: clipping is reported.
C10_Witness ==
    /\ levelData # NoResult
    /\ Len(samples) = 3
    /\ samples[1] = 0 /\ samples[2] = 128
    /\ samples[3] \in {127, 128}
    /\ levelData.Clipping

\* ------------------------------------------------------------------------
\* Properties of the level monitor loop (checked under SpecMonitor)
\* ------------------------------------------------------------------------

\* The level calculateAudioLevel returns for each chunk of ChunkInputs.
ChunkLevels == {calculateAudioLevel(chunk).Level : chunk \in ChunkInputs}

\* C11: for every input chunk the level calculateAudioLevel returns is an
\* integer in 0..100, and so is every level carried by a level event and by
\* a levels update sent to a client (the levels map in a state with sent).
C11_LevelsInRange ==
    /\ ChunkLevels \subseteq 0..100
    /\ \A e \in EventLevels : e.Level \in 0..100
    /\ \A s \in DOMAIN levels : levels[s].Level \in 0..100

\* C11 witness: an update was just sent that carries the level 100, which
\* the clamp made of the scaled level 120 of a full-scale sample.
C11_Witness ==
    /\ sent
    /\ \E s \in DOMAIN levels : levels[s].Level = 100

\* A step of the loop that handles a level event e of source s.
IsLevelEvent(s, e) ==
    \E isAuthenticated, elapsed, writeOk \in BOOLEAN :
        SSELevelEvent(s, e, isAuthenticated, elapsed, writeOk)

\* C12: a source is inactive exactly when now - lastUpdate or
\* now - lastNonZero is strictly greater than the threshold of 15 s, and a
\* source with a timestamp not recorded is active; a level event of a
\* source sets its lastUpdate to now, sets its lastNonZero to now only when
\* its level is > 0, and touches no other timestamp; no other step of the
\* loop changes a timestamp.
C12_InactivityRule ==
    [][/\ \A s \in Sources :
            isSourceInactive(s, now, lastUpdateTime, lastNonZeroTime,
                             inactivityThreshold)
            <=> /\ s \in DOMAIN lastUpdateTime
                /\ s \in DOMAIN lastNonZeroTime
                /\ \/ now - lastUpdateTime[s] > 15
                   \/ now - lastNonZeroTime[s] > 15
       /\ \A s \in Sources, e \in EventLevels :
            \/ /\ lastUpdateTime' = Put(lastUpdateTime, s, now)
               /\ lastNonZeroTime' = IF e.Level > 0
                                     THEN Put(lastNonZeroTime, s, now)
                                     ELSE lastNonZeroTime
            \/ ~IsLevelEvent(s, e)
       /\ \/ /\ lastUpdateTime' = lastUpdateTime
             /\ lastNonZeroTime' = lastNonZeroTime
          \/ \E s \in Sources, e \in EventLevels : IsLevelEvent(s, e)]_vars

\* C12 witness: a source whose latest event is recent but whose latest
\* non-zero event is more than 15 s old (inactive through lastNonZero
\* alone), next to a source that got a zero-level event and has no
\* lastNonZero recorded, 20 s after the connection began.
C12_Witness ==
    /\ \E s \in DOMAIN lastNonZeroTime :
          /\ now - lastUpdateTime[s] <= 15
          /\ now - lastNonZeroTime[s] > 15
          /\ levels[s].Level = 0
    /\ \E s \in DOMAIN lastUpdateTime : s \notin DOMAIN lastNonZeroTime

\* C13: every levels update sent reports level 0 for each source that is
\* inactive at the moment of sending.
C13_InactiveReportedZero ==
    sent => \A s \in DOMAIN levels :
               isSourceInactive(s, now, lastUpdateTime, lastNonZeroTime,
                                inactivityThreshold)
               => levels[s].Level = 0

\* C14: no step of the loop removes an entry of the levels map or changes
\* the source id of one; a step that is not a level event of the source
\* leaves its name, clipping flag and timestamps unchanged and either
\* leaves its level or, when the source is inactive, sets it to 0.
C14_EntriesRetained ==
    [][\A s \in DOMAIN levels :
          /\ s \in DOMAIN levels'
          /\ levels'[s].Source = levels[s].Source
          /\ \/ /\ levels'[s].Name = levels[s].Name
                /\ levels'[s].Clipping = levels[s].Clipping
                /\ s \in DOMAIN lastUpdateTime
                      => /\ s \in DOMAIN lastUpdateTime'
                         /\ lastUpdateTime'[s] = lastUpdateTime[s]
                /\ s \in DOMAIN lastNonZeroTime
                      => /\ s \in DOMAIN lastNonZeroTime'
                         /\ lastNonZeroTime'[s] = lastNonZeroTime[s]
                /\ \/ levels'[s].Level = levels[s].Level
                   \/ /\ levels'[s].Level = 0
                      /\ isSourceInactive(s, now, lastUpdateTime,
                                          lastNonZeroTime,
                                          inactivityThreshold)
             \/ \E e \in EventLevels : IsLevelEvent(s, e)]_vars

\* C14 witness: an inactive source whose entry the activity check set to
\* level 0: it is still in the map, with the clipping flag of its last
\* event, and the update that reports it was sent.
C14_Witness ==
    /\ sent
    /\ \E s \in DOMAIN levels :
          /\ levels[s].Level = 0
          /\ levels[s].Clipping
          /\ isSourceInactive(s, now, lastUpdateTime, lastNonZeroTime,
                              inactivityThreshold)

\* ------------------------------------------------------------------------
\* Properties of the capture buffer (checked under SpecCapture)
\* ------------------------------------------------------------------------

\* C15: once more bytes than the capacity have been written, by whatever
\* Write calls, the buffer holds exactly the most recent capacityBytes bytes
\* of the stream, in the order written, and a read that starts at an older
\* byte is refused.
C15_NewestWins ==
    (captureRing # NoBuffer /\ captureRing.total > captureRing.capacityBytes)
    => LET cap == captureRing.capacityBytes
           total == captureRing.total
       IN /\ total = Len(captureStream)
          /\ Retrievable(captureRing)
                = SubSeq(captureStream, total - cap + 1, total)
          /\ \A t \in 0..MaxWritten :
                ByteOffset(captureRing, t) < total - cap
                => ReadRange(captureRing, t, t + 1).err = "RangeUnavailable"
          /\ (captureResult.op = "read" /\ captureResult.err = "ok")
                => captureResult.bytes
                      = SubSeq(captureStream,
                               ByteOffset(captureRing,
                                          captureResult.startTime) + 1,
                               ByteOffset(captureRing, captureResult.endTime))

\* C15 witness: a buffer of two bytes after at least two Write calls of
\* four bytes in all, three of them of value 1; a read of its latest second
\* returned the last two bytes.
C15_Witness ==
    /\ captureRing # NoBuffer
    /\ captureRing.capacityBytes = 2
    /\ captureRing.total = 4
    /\ captureStream = <<1, 1, 0, 1>>
    /\ captureResult.op = "read"
    /\ captureResult.err = "ok"
    /\ captureResult.bytes = <<0, 1>>

\* C17: the capacity of an allocated capture buffer is durationSeconds x
\* sampleRate x bytesPerSample x channels, the region has that many bytes,
\* and no write or read changes the capacity.
C17_CapacityFixed ==
    [][/\ captureRing # NoBuffer
            => /\ captureRing.capacityBytes
                    = captureRing.durationSeconds * captureRing.sampleRate
                      * captureRing.bytesPerSample * captureRing.channels
               /\ Len(captureRing.data) = captureRing.capacityBytes
       /\ (captureRing # NoBuffer /\ captureRing' # NoBuffer)
            => /\ captureRing'.capacityBytes = captureRing.capacityBytes
               /\ Len(captureRing'.data) = Len(captureRing.data)]_vars

\* C17 witness: a two-channel buffer of capacity 1 x 2 x 1 x 2 = 4 that has
\* been written past its capacity and read.
C17_Witness ==
    /\ captureRing # NoBuffer
    /\ captureRing.channels = 2
    /\ captureRing.sampleRate = 2
    /\ captureRing.capacityBytes = 4
    /\ captureRing.total > 4
    /\ captureResult.op = "read"

\* C18: ReadRange returns NotFound when the source has no capture buffer,
\* RangeUnavailable when a byte of the interval has been overwritten, and
\* otherwise exactly the bytes written for the interval; the call, failed or
\* not, leaves the buffer unchanged.
C18_ReadRangeResults ==
    [][(captureResult'.op = "read")
        => /\ captureRing' = captureRing
           /\ captureStream' = captureStream
           /\ IF captureRing' = NoBuffer
              THEN captureResult'.err = "NotFound"
              ELSE LET first == ByteOffset(captureRing',
                                           captureResult'.startTime)
                       last == ByteOffset(captureRing',
                                          captureResult'.endTime)
                   IN IF first < Len(captureStream')
                                    - captureRing'.capacityBytes
                      THEN captureResult'.err = "RangeUnavailable"
                      ELSE /\ captureResult'.err = "ok"
                           /\ captureResult'.bytes
                                 = SubSeq(captureStream', first + 1, last)]_vars

\* C18 witness: a read refused with RangeUnavailable although its last byte
\* is still in the buffer: only its first byte has been overwritten.
C18_Witness ==
    /\ captureRing # NoBuffer
    /\ captureResult.op = "read"
    /\ captureResult.err = "RangeUnavailable"
    /\ ByteOffset(captureRing, captureResult.endTime) = captureRing.total
    /\ ByteOffset(captureRing, captureResult.startTime)
          = captureRing.total - captureRing.capacityBytes - 1

\* ------------------------------------------------------------------------
\* Properties of the analysis buffer (checked under SpecAnalysis)
\* ------------------------------------------------------------------------

\* C16: each ExtractWindow returns one window of windowBytes bytes and
\* advances the read cursor by windowBytes - overlapBytes: the k-th window
\* is the windowBytes bytes of the stream that start (k - 1) x (windowBytes
\* - overlapBytes) bytes in, so consecutive windows share exactly
\* overlapBytes bytes and no byte is skipped or repeated beyond them.
C16_WindowsOverlap ==
    analysisRing # NoBuffer
    => LET w == analysisRing.windowBytes
           step == analysisRing.windowBytes - analysisRing.overlapBytes
       IN /\ analysisRing.readCursor = Len(analysisWindows) * step
          /\ \A k \in 1..Len(analysisWindows) :
                /\ Len(analysisWindows[k]) = w
                /\ analysisWindows[k]
                      = SubSeq(analysisStream, (k - 1) * step + 1,
                               (k - 1) * step + w)
          /\ \A k \in 1..(Len(analysisWindows) - 1) :
                SubSeq(analysisWindows[k], step + 1, w)
                   = SubSeq(analysisWindows[k + 1], 1, w - step)

\* C16 witness: windows of three bytes with an overlap of one byte; the
\* second window was just extracted and begins with the last byte of the
\* first, and the region (four bytes) has wrapped.
C16_Witness ==
    /\ analysisRing # NoBuffer
    /\ analysisRing.windowBytes = 3
    /\ analysisRing.overlapBytes = 1
    /\ analysisRing.size = 4
    /\ analysisResult.op = "extract"
    /\ analysisWindows = <<<<0, 1, 1>>, <<1, 0, 1>>>>

\* ------------------------------------------------------------------------
\* Properties of the decoder supervisor (checked under SpecSupervisor)
\* ------------------------------------------------------------------------

\* C19: once Stop has been called, from Running or from Backoff, the loop
\* is Stopped with no subprocess, it stays so, the subprocess is never
\* spawned again (also not by the restart that was pending), and a further
\* Stop changes nothing.
C19_StopWins ==
    [][/\ SupStop => /\ supState' = "Stopped"
                     /\ ~procAlive'
                     /\ spawnTimes' = spawnTimes
       /\ supStopped => /\ supStopped'
                        /\ supState = "Stopped" /\ supState' = "Stopped"
                        /\ ~procAlive /\ ~procAlive'
                        /\ spawnTimes' = spawnTimes
       /\ (supStopped /\ SupStop) => UNCHANGED supVars]_vars

\* C19 witness: Stop was called during Backoff and the restart that was
\* pending then is now due: the loop is Stopped, one spawn has happened, and
\* the timer is about to run out.
C19_Witness ==
    /\ supStopped
    /\ supState = "Stopped"
    /\ Len(spawnTimes) = 1
    /\ restartAt # NoRestart
    /\ supNow >= restartAt.at

\* C20: whatever the subprocess does, also when it exits right after every
\* spawn, no window of SpawnWindow time units holds more than SpawnCeiling
\* spawns: spawn number k + SpawnCeiling comes at least SpawnWindow after
\* spawn number k.
C20_SpawnRateBounded ==
    \A k \in 1..(Len(spawnTimes) - SpawnCeiling) :
        spawnTimes[k + SpawnCeiling] - spawnTimes[k] >= SpawnWindow

\* C20 witness: a crash loop, every exit in the time unit of the spawn: the
\* second spawn comes after the backoff delay alone, the third is held back
\* until the window of the first has passed, and the subprocess is gone
\* again.
C20_Witness ==
    /\ Len(spawnTimes) >= SpawnCeiling + 1
    /\ spawnTimes[2] = spawnTimes[1] + BackoffDelay
    /\ spawnTimes[SpawnCeiling + 1] = spawnTimes[1] + SpawnWindow
    /\ supState = "Backoff"
    /\ supNow = spawnTimes[Len(spawnTimes)]

\* C21: when the subprocess exits while the loop is Running (the source not
\* removed, Stop not called), the loop goes to Backoff, schedules the restart
\* no earlier than the backoff delay after the exit, and the subprocess is
\* eventually spawned again (Running, Backoff, Running) unless Stop comes
\* first; StreamDegraded is surfaced only once the restart budget is used
\* up.  The restart is awaited for exits whose restart time lies within the
\* clock of the model.
C21_RestartAfterExit ==
    /\ [][(supState = "Running" /\ supState' = "Backoff")
            => /\ restartAt' # NoRestart
               /\ restartAt'.at >= supNow + BackoffDelay]_vars
    /\ [][(supState = "Backoff" /\ supState' = "Running")
            => /\ procAlive'
               /\ supNow >= restartAt.at]_vars
    /\ [](degraded => Restarts(spawnTimes) >= RestartBudget)
    /\ (supState = "Backoff" /\ ~supStopped /\ restartAt # NoRestart
           /\ restartAt.at <= MaxSupTime)
          ~> (supState = "Running" \/ supStopped)

\* C21 witness: the subprocess runs again after more exits than the restart
\* budget covers, Stop never called: every exit was followed by a restart,
\* and StreamDegraded was surfaced by the exit that found the budget used up.
C21_Witness ==
    /\ supState = "Running" /\ procAlive /\ ~supStopped
    /\ Restarts(spawnTimes) = RestartBudget + 1
    /\ degraded

\* ------------------------------------------------------------------------
\* Further properties of ReconfigureRTSPStreams (checked under Spec)
\* ------------------------------------------------------------------------

\* C23: an addition that fails leaves the source inactive and without a
\* capture buffer, and an analysis buffer that the same iteration created
\* is released before the source is skipped.
C23_FailedAdditionReleasesBuffers ==
    [][\A u \in URLs :
        (rcPc = "add" /\ urls[rcIdx] = u /\ rcIdx \in callLog'.fail)
            => /\ u \notin activeStreams'
               /\ u \notin captureBuffers'
               /\ u \notin analysisBuffers => u \notin analysisBuffers']_vars

\* C24: every source of the active-stream set has its analysis buffer and
\* its capture buffer allocated, in every reachable state.
C24_ActiveHasBuffers ==
    \A u \in activeStreams : u \in analysisBuffers /\ u \in captureBuffers

\* C24 witness: one source is active while the removal of another one is
\* between marking it inactive and freeing its buffers.
C24_Witness ==
    /\ rcPc = "rmFree"
    /\ rcUrl \notin activeStreams
    /\ rcUrl \in analysisBuffers /\ rcUrl \in captureBuffers
    /\ activeStreams # {}

\* ------------------------------------------------------------------------
\* Further properties of the level-event path (checked under SpecChan)
\* ------------------------------------------------------------------------

\* C25: every level event taken off the level-event channel is observed by
\* each of the connected subscribers: when the loop of one client receives
\* an event, every registered client has that event as its latest.
C25_EverySubscriberObserves ==
    [][(audioLevelChan # <<>> /\ audioLevelChan' = Tail(audioLevelChan))
          => \A ip \in activeSSEConnections :
                observed'[ip] = Head(audioLevelChan)]_vars

\* ------------------------------------------------------------------------
\* Properties of the AudioLevelSSE requests (checked under SpecConn and,
\* for termination, under SpecConnLive)
\* ------------------------------------------------------------------------

\* The requests of client ip that are inside the handler.
LiveOf(ip) == {r \in DOMAIN connPc : Live(r) /\ connIp[r] = ip}

\* C26: at most one request per client IP is inside the handler at any
\* time; a request that arrives while a connection of its IP is registered
\* gets 429 Too Many Requests, and its rejection leaves the registry and
\* every other request as they were.
C26_OneConnectionPerIP ==
    /\ [](\A ip \in ClientIPs : Cardinality(LiveOf(ip)) <= 1)
    /\ [][Len(connPc') = Len(connPc) + 1
            => LET r == Len(connPc')
               IN connIp'[r] \in activeSSEConnections
                    => /\ connPc'[r] = "rejected"
                       /\ connStatus'[r] = 429
                       /\ activeSSEConnections' = activeSSEConnections
                       /\ \A q \in DOMAIN connPc :
                             /\ connPc'[q] = connPc[q]
                             /\ connDeadline'[q] = connDeadline[q]]_vars

\* C26 witness: a request was rejected while an earlier request of the same
\* IP is in its loop, still registered.
C26_Witness ==
    \E q, r \in DOMAIN connPc :
        /\ q < r
        /\ connIp[q] = connIp[r]
        /\ connPc[q] = "loop"
        /\ connPc[r] = "rejected" /\ connStatus[r] = 429
        /\ connIp[q] \in activeSSEConnections

\* C27: every exit path of an accepted request leads to the return that
\* removes its client-IP entry; no entry stays without a request inside the
\* handler, so a request of an IP whose connection has ended is accepted.
C27_EntryRemovedOnExit ==
    /\ [][\A r \in DOMAIN connPc :
            /\ (connPc[r] \in {"init", "loop"}
                   /\ connPc'[r] \notin {"init", "loop"})
                  => connPc'[r] = "returning"
            /\ (connPc[r] = "returning" /\ connPc'[r] # "returning")
                  => /\ connPc'[r] = "done"
                     /\ connIp[r] \notin activeSSEConnections']_vars
    /\ [](\A ip \in activeSSEConnections : LiveOf(ip) # {})
    /\ [][Len(connPc') = Len(connPc) + 1
            => LET r == Len(connPc')
               IN LiveOf(connIp'[r]) = {}
                    => /\ connPc'[r] = "init"
                       /\ connIp'[r] \in activeSSEConnections']_vars

\* C27 witness: a connection ended on an error of its heartbeat, and a
\* later request of the same IP was accepted and is in its loop.
C27_Witness ==
    \E q, r \in DOMAIN connPc :
        /\ q < r
        /\ connIp[q] = connIp[r]
        /\ connPc[q] = "done" /\ connExit[q] = "heartbeat"
        /\ connPc[r] = "loop"

\* Request r has returned.
Returned(r) == r \in DOMAIN connPc /\ connPc[r] = "done"

\* C28: every accepted request eventually returns; its timeout timer is
\* set once, 65 s after the request was accepted, and nothing the loop does
\* moves it.
C28_ConnectionTerminates ==
    /\ \A r \in Requests : Live(r) ~> Returned(r)
    /\ [][\A r \in DOMAIN connPc :
            Live(r) => connDeadline'[r] = connDeadline[r]]_vars
    /\ [][Len(connPc') = Len(connPc) + 1
            => LET r == Len(connPc')
               IN connPc'[r] = "init" => connDeadline'[r] = connNow + 65]_vars

\* C28 witness: a request has returned by its timeout.
C28_Witness ==
    \E r \in DOMAIN connPc :
        /\ connPc[r] = "done"
        /\ connExit[r] = "timeout"
        /\ connNow >= connDeadline[r]

\* ------------------------------------------------------------------------
\* Properties of the names sent to the clients (checked under SpecMonitor
\* and SpecClean)
\* ------------------------------------------------------------------------

\* The strings of an update that are the text of an RTSP URL.
IsURLText(x) == x \in Sources \ {"malgo"}

\* C29: an update sent to a client that is not authenticated discloses no
\* RTSP URL: an entry that carries the placeholder name of such a client has
\* no URL as its map key and none in its Source field.
C29_NoURLDisclosed ==
    sent => \A k \in DOMAIN levels :
                levels[k].Name = "anonymous"
                    => ~IsURLText(k) /\ ~IsURLText(levels[k].Source)

\* C30: for every URL rtsp://[userinfo@]host[:port][/path] cleanRTSPUrl
\* returns rtsp://host[:port]: no credentials, no path.
C30_HostAndPortOnly ==
    cleanOutput # NoResult => cleanOutput = Prefix \o cleanInput.host

\* ------------------------------------------------------------------------
\* Properties of Predict (checked under SpecPredict)
\* ------------------------------------------------------------------------

\* C22: when the labels and the model outputs differ in number Predict
\* returns an error and no results; else, the interpreter working, it
\* returns results: at most ten, in descending order of confidence, each
\* pairing a label i with the confidence computed from model output i.
C22_PredictRanked ==
    predResult # NoResult =>
        LET res == predResult.results
            nl == Len(predInput.labels)
            no == Len(predInput.outputs)
        IN /\ nl # no => (predResult.err # "ok" /\ res = <<>>)
           /\ (nl = no /\ predInput.interpreter = "ok")
                 => predResult.err = "ok"
           /\ predResult.err = "ok"
                 => /\ Len(res) <= 10
                    /\ \A k \in 1..(Len(res) - 1) :
                          res[k].Confidence >= res[k + 1].Confidence
                    /\ \A k \in 1..Len(res) : \E i \in 1..nl :
                          /\ res[k].Species = predInput.labels[i]
                          /\ res[k].Confidence =
                                customSigmoid(predInput.outputs[i],
                                              predInput.sensitivity)

\* C22 witness: Predict got more than ten labels and as many outputs and
\* returned ten results, the first of a higher confidence than the last.
C22_Witness ==
    /\ predResult # NoResult
    /\ predResult.err = "ok"
    /\ Len(predInput.outputs) > 10
    /\ Len(predResult.results) = 10
    /\ predResult.results[1].Confidence > predResult.results[10].Confidence

\* ------------------------------------------------------------------------
\* Properties of ReloadModel
\* ------------------------------------------------------------------------

\* The latest ReloadModel call has returned an error.
ReloadFailed == bn.rpc = "idle" /\ bn.err \notin {"none", "pending"}

\* C31: when ReloadModel has returned an error, AnalysisInterpreter and
\* RangeInterpreter are the interpreters from before the call, neither of
\* them has been deleted, and every interpreter the failed call created has
\* been deleted exactly once.
C31_FailedReloadRestores ==
    ReloadFailed =>
        /\ bn.analysis = bn.before.analysis
        /\ bn.range = bn.before.range
        /\ \A id \in {bn.before.analysis, bn.before.range} \ {0} :
              bn.interps[id].deletes = 0
        /\ \A id \in 1..Len(bn.interps) :
              bn.interps[id].born = bn.reloads => bn.interps[id].deletes = 1

\* C32: Predict and ReloadModel never hold the instance together, what
\* Predict invokes is an interpreter with allocated tensors that has not been
\* deleted, and between ReloadModel calls AnalysisInterpreter is such an
\* interpreter.
C32_PredictUsesLiveInterpreter ==
    /\ ~(bn.ppc = "locked" /\ bn.rpc # "idle")
    /\ bn.invoked \in {"none", "ready"}
    /\ bn.rpc = "idle" => InterpreterState(bn) = "ready"

\* C33: when ReloadModel has returned an error, Settings.BirdNET.Labels is
\* the list from before the call.
C33_FailedReloadKeepsLabels ==
    ReloadFailed => bn.labels = bn.before.labels

\* ------------------------------------------------------------------------
\* Properties of the control signal monitor
\* ------------------------------------------------------------------------

\* The action that corresponds to a signal of a defined type.
Corresponds(signal, action) ==
    /\ signal = RebuildRangeFilter =>
          action \in {"range filter rebuilt", "range filter rebuild failed"}
    /\ signal = ReloadBirdNET =>
          action \in {"model reloaded", "model reload failed"}

\* C34: the signals are handled in the order in which they were sent, and
\* the k-th signal sent is eventually handled by the action of its type,
\* whatever the outcome of the actions before it.
C34_SignalsTriggerActions ==
    /\ [](/\ Len(ctl.handled) <= Len(ctl.log)
          /\ \A k \in 1..Len(ctl.handled) :
                ctl.handled[k].signal = ctl.log[k])
    /\ \A k \in 1..MaxSignals :
          (Len(ctl.log) >= k) ~>
              (/\ Len(ctl.handled) >= k
               /\ Corresponds(ctl.handled[k].signal, ctl.handled[k].action))

\* ------------------------------------------------------------------------
\* Properties of the OAuth2 server
\* ------------------------------------------------------------------------

\* The authorization codes generated so far.
Codes == {id \in 1..Len(auth.strings) : auth.strings[id].kind = "code"}

\* The access tokens successful ExchangeAuthCode calls have returned.
Tokens == {id \in 1..Len(auth.strings) : auth.strings[id].kind = "token"}

\* A successful exchange is one of a generated code whose expiry has not
\* passed.
ExchangedOnlyIfValid ==
    auth.last.op = "exchange" /\ auth.last.ok =>
        /\ auth.last.arg \in Codes
        /\ auth.now <= auth.strings[auth.last.arg].expires

\* C35 as stated: no code is exchanged twice, of the exchanges made with a
\* code up to its expiry exactly one succeeds, and no exchange succeeds for a
\* string that is not a generated, unexpired code.
C35_ExactlyOneExchange ==
    /\ \A code \in Codes :
          /\ auth.strings[code].won <= 1
          /\ auth.strings[code].tried >= 1 => auth.strings[code].won = 1
    /\ ExchangedOnlyIfValid

\* C35, amended: no code is exchanged twice, of the exchanges made with a
\* code up to its expiry at most one succeeds, and exactly one unless one of
\* them failed to generate its token; no exchange succeeds for a string that
\* is not a generated, unexpired code.
C35_AtMostOneExchange ==
    /\ \A code \in Codes :
          /\ auth.strings[code].won <= 1
          /\ auth.strings[code].tried >= 1 /\ ~auth.strings[code].failed
                => auth.strings[code].won = 1
    /\ ExchangedOnlyIfValid

\* Two exchanges of one unexpired code: one returned a token.
C35_Witness ==
    \E code \in Codes :
        /\ auth.strings[code].tried = 2
        /\ auth.strings[code].won = 1
        /\ auth.last.op = "exchange" /\ auth.last.arg = code /\ ~auth.last.ok

\* C36: ValidateAccessToken(t) returns true exactly when t is a token a
\* successful ExchangeAuthCode returned and the time is before its expiry (so
\* never for a code, an unknown string or an expired token), and the call
\* changes neither map.
C36_ValidateSound ==
    /\ [](auth.last.op = "validate" =>
            (auth.last.ok <=>
                /\ auth.last.arg \in Tokens
                /\ auth.now < auth.strings[auth.last.arg].expires))
    /\ [][auth'.last.op = "validate" =>
            /\ auth'.authCodes = auth.authCodes
            /\ auth'.accessTokens = auth.accessTokens]_vars

\* A token has been validated, and later rejected once its expiry was reached
\* while it was still in the map.
C36_Witness ==
    /\ auth.last.op = "validate"
    /\ ~auth.last.ok
    /\ auth.last.arg \in Tokens
    /\ auth.last.arg \in DOMAIN auth.accessTokens

\* The times at which a call can be made from now on.
Later == auth.now..(MaxAuthTime + 1)

\* C37: a cleanup deletes only entries whose expiry has passed and leaves
\* every other entry as it was, and no ValidateAccessToken or
\* ExchangeAuthCode call made after it, with any string at any later time,
\* has another outcome than without it.
C37_CleanupTransparent ==
    [][auth'.last.op = "cleanup" =>
          /\ \A k \in DOMAIN auth.authCodes :
                IF auth.now > auth.authCodes[k]
                THEN k \in DOMAIN auth'.authCodes
                        => auth'.authCodes[k] = auth.authCodes[k]
                ELSE /\ k \in DOMAIN auth'.authCodes
                     /\ auth'.authCodes[k] = auth.authCodes[k]
          /\ \A k \in DOMAIN auth.accessTokens :
                IF auth.now > auth.accessTokens[k]
                THEN k \in DOMAIN auth'.accessTokens
                        => auth'.accessTokens[k] = auth.accessTokens[k]
                ELSE /\ k \in DOMAIN auth'.accessTokens
                     /\ auth'.accessTokens[k] = auth.accessTokens[k]
          /\ DOMAIN auth'.authCodes \subseteq DOMAIN auth.authCodes
          /\ DOMAIN auth'.accessTokens \subseteq DOMAIN auth.accessTokens
          /\ \A str \in Known, t \in Later :
                /\ validateAccessToken(auth'.accessTokens, str, t)
                      = validateAccessToken(auth.accessTokens, str, t)
                /\ Exchangeable(auth'.authCodes, str, t)
                      = Exchangeable(auth.authCodes, str, t)]_vars

\* A cleanup has deleted an entry and left another in place.
C37_Witness ==
    /\ auth.last.op = "cleanup"
    /\ auth.last.ret > 0
    /\ DOMAIN auth.authCodes \cup DOMAIN auth.accessTokens # {}

====
